---- MODULE Spec2Model ----
(***************************************************************************)
(* Wait-free SPSC triple buffer of src/src/utils/triple_buffer.rs: one     *)
(* producer thread owning the TripleBufferWriter, one consumer thread      *)
(* owning the TripleBufferReader, three payload slots and one atomic word  *)
(* holding the packed BufferState.  Every access to the atomic word is a   *)
(* step of its own, so a load and the CAS that follows it can be separated *)
(* by steps of the other thread.                                           *)
(***************************************************************************)
EXTENDS Integers, Sequences, FiniteSets, TLC

\* Number of Write Guards the producer takes (it writes 1, 2, ... MaxSeq).
MaxSeq == 3
\* Largest number of Read Guards the consumer holds at the same time.
MaxReaders == 2
MaxHigh == 1
LoopMaxSeq == 2
LoopMaxReaders == 1
DeliverMaxSeq == 2
\* The runs of the unbounded-loop variant in which the loops are raced.
RaceMaxSeq == 3
\* The runs in which the two variants are compared operation by operation.
WholeMaxSeq == 3
WholeMaxReaders == 2
\* Memory orderings: Write Guards obtained.
OrderMaxSeq == 3
\* The timers: the largest value the CPU thread stores into a timer.
MaxTimer == 2
\* The timers: messages sent and not yet received.
MaxChannel == 2
\* LD Vx,K: keys down at once, and waits run to their end.
MaxPressed == 2
MaxCycles == 2
\* LD Vx,K: the keys main presses are 0 .. MaxKey and the last key.
MaxKey == 2
\* Shutdown: terminal events that arrive in all.
MaxEvents == 3

\* The largest index a nibble of the packed state holds (mask 0xF).
NibbleMax == 15
\* The largest u8.
U8Max == 255
\* consts::PROGRAM_START, 0x200.
PROGRAM_START == 512
\* The number of keys, the length of Chip8.keys.
KeyCount == 16
\* The word of the example in the documentation of decode: 0x1082.
DocExampleWord == 4226
\* Faulty variant: two retries.
Retries_two == 1 + 1

\* Faulty variant: no retry, a single attempt.
Retries_none == 1 - 1

\* swap_write() calls swap_write_retry(1).
Retries == 1
\* The value triple_buffer(initial) is created with.
Initial == 0

\* buffers: [UnsafeCell<T>; 3]
Slots == 0 .. 2
\* The guard slot before any guard was taken: one past the last slot.
NoSlot == Cardinality(Slots)

(***************************************************************************)
(* BufferState and its packed form.                                        *)
(***************************************************************************)
RECURSIVE BitOr(_, _)
BitOr(a, b) ==
    IF a = 0 THEN b
    ELSE IF b = 0 THEN a
    ELSE (IF a % 2 = 1 \/ b % 2 = 1 THEN 1 ELSE 0) + 2 * BitOr(a \div 2, b \div 2)

\* Faulty variant: the buffer starts with the dirty flag set.
BufferState_new_dirty ==
    [read_idx |-> 0, ready_idx |-> 1, write_idx |-> 2, dirty |-> TRUE]

\* BufferState::new
BufferState_new ==
    [read_idx |-> 0, ready_idx |-> 1, write_idx |-> 2, dirty |-> FALSE]

\* Faulty variant: read_idx is not masked.
decode_unmasked(w) ==
    [read_idx  |-> w,
     ready_idx |-> (w \div 16) % 16,
     write_idx |-> (w \div 256) % 16,
     dirty     |-> ((w \div 4096) % 16 = 1)]

decode(w) ==
    [read_idx  |-> w % 16,
     ready_idx |-> (w \div 16) % 16,
     write_idx |-> (w \div 256) % 16,
     dirty     |-> ((w \div 4096) % 16 = 1)]

\* Faulty variant: write_idx is shifted by 4 bits, onto ready_idx.
encode_write_on_ready(s) ==
    BitOr(BitOr(BitOr(s.read_idx, s.ready_idx * 16), s.write_idx * 16),
          (IF s.dirty THEN 1 ELSE 0) * 4096)

\* Faulty variant: the dirty flag is shifted by 15 bits.
encode_dirty_high(s) ==
    BitOr(BitOr(BitOr(s.read_idx, s.ready_idx * 16), s.write_idx * 256),
          (IF s.dirty THEN 1 ELSE 0) * 32768)

encode(s) ==
    BitOr(BitOr(BitOr(s.read_idx, s.ready_idx * 16), s.write_idx * 256),
          (IF s.dirty THEN 1 ELSE 0) * 4096)

\* Faulty variant: the read slot is exchanged with the write slot.
try_swap_read_new_state_takes_write(s) ==
    [s EXCEPT !.read_idx = s.write_idx, !.write_idx = s.read_idx, !.dirty = FALSE]

\* Faulty variant: the dirty flag is left set.
try_swap_read_new_state_keeps_dirty(s) ==
    [s EXCEPT !.ready_idx = s.read_idx, !.read_idx = s.ready_idx]

\* new_state of try_swap_read: read and ready swapped, dirty cleared.
try_swap_read_new_state(s) ==
    [s EXCEPT !.ready_idx = s.read_idx, !.read_idx = s.ready_idx, !.dirty = FALSE]

\* Faulty variant: ready_idx is not updated.
swap_write_new_state_keeps_ready(s) ==
    [s EXCEPT !.write_idx = s.ready_idx, !.dirty = TRUE]

\* Faulty variant: the write slot is exchanged with the read slot.
swap_write_new_state_takes_read(s) ==
    [s EXCEPT !.write_idx = s.read_idx, !.read_idx = s.write_idx, !.dirty = TRUE]

\* Faulty variant: the dirty flag is not set.
swap_write_new_state_not_dirty(s) ==
    [s EXCEPT !.write_idx = s.ready_idx, !.ready_idx = s.write_idx]

\* new_state of swap_write_retry: write and ready swapped, dirty set.
swap_write_new_state(s) ==
    [s EXCEPT !.write_idx = s.ready_idx, !.ready_idx = s.write_idx, !.dirty = TRUE]

\* compare_exchange_weak succeeds only when the word equals the expected one,
\* and may fail although it does (spurious failure, chosen by the platform).
compare_exchange_weak(word, current, spur) == word = current /\ ~spur

\* A complete payload holding sequence number v (the payload has two fields).
Full(v) == <<v, v>>

VARIABLES
    encoded_state,  \* TripleBuffer.encoded_state: the packed BufferState
    buffers,        \* TripleBuffer.buffers: slot -> payload <<field1, field2>>
    w_borrowers,    \* TripleBufferWriter.borrowers
    w_pc,           \* producer position
    w_guard,        \* slot of the WriteHandle (NoSlot before the first write())
    w_fill,         \* fields of the payload stored through the live WriteHandle
    w_seq,          \* sequence number the producer writes in its next guard
    w_cur,          \* swap_write_retry: local `current`
    w_try,          \* swap_write_retry: loop counter
    r_borrowers,    \* TripleBufferReader.borrowers
    r_pc,           \* consumer position
    r_cur,          \* try_swap_read: local `current`
    r_guards,       \* live ReadHandles, oldest first
    r_tmp,          \* deref in progress: <<guard number, field1 read>>
    h_call,         \* history: what held when the read() in progress was called
    h_pub,          \* history: value of the latest successful publish
    h_rel,          \* history: value of the latest Write Guard whose release returned
    h_dropped,      \* history: the latest release returned without publishing
    h_quiet,        \* history: consumer idle and guard-free since the latest write() call
    h_max,          \* history: largest value any Read Guard obtained so far held
    h_obs,          \* history: payload of the latest completed deref of a Read Guard
    h_spurious,     \* history: some compare_exchange_weak failed spuriously
    h_pre,          \* history: the packed state when the latest release began
    h_unread,       \* history: a publish has succeeded since the latest successful advance
    c_pc,           \* codec exercise: position ("off" while the buffer runs)
    c_s0,           \* codec exercise: the BufferState given
    c_w0,           \* codec exercise: the word given
    c_s,            \* codec exercise: result of the latest decode
    c_w,            \* codec exercise: result of the latest encode
    c_m,            \* codec exercise: decode of the given word, bits 16.. cleared
    t_pc,           \* timer thread of spawn_timers: position ("off" while not spawned)
    t_dt,           \* Chip8.dt: the delay timer (AtomicU8)
    t_st,           \* Chip8.st: the sound timer (AtomicU8)
    t_prev,         \* fetch_update: the value the closure is applied to
    t_st_now,       \* spawn_timers: local `st_now`
    t_sounding,     \* spawn_timers: local `sounding`
    t_tx,           \* the channel of spawn_timers: messages sent and not yet received
    t_beeper,       \* what main passed to beeper.set last ("none" before the first)
    h_t_dec,        \* history: the latest decrement stored by the timer thread
    h_t_decs,       \* history: decrements of dt and of st stored in the tick in progress
    h_t_raced,      \* history: the fetch_update in progress lost an exchange to a store
    h_t_send,       \* history: the latest message sent and what its tick observed
    k_on,           \* LD Vx,K exercise: the CPU is running it
    k_keys,         \* Chip8.keys: the keys that are down
    k_key_state,    \* Chip8.key_state
    k_last_key,     \* Chip8.last_key
    k_vx,           \* Chip8.v[x], x the register of the LD Vx,K
    k_pc,           \* Chip8.pc
    h_k_exec,       \* history: the Chip8 as the latest exec(LdVxK) found it
    h_k_cycles,     \* history: waits begun (key seen down) and waits ended
    s_main,         \* main of oxid8: position ("off" while the binary does not run)
    s_render,       \* the render thread: position
    s_input,        \* the input thread: position
    s_running_state, \* Model.running_state (AtomicRunningState)
    s_terminal,     \* terminal events arrived and not yet read by event::read()
    s_events,       \* terminal events arrived so far
    s_message,      \* the input thread: local `message`
    s_input_tx,     \* the channel input_tx / input_rx: messages sent and not yet received
    h_loop,         \* history of the CAS loops of the unbounded-loop variant
    m_word,         \* memory orderings: encoded_state, the latest value in its modification order
    m_pos,          \* memory orderings: the number of stores in that modification order
    m_w_pc,         \* memory orderings: producer position ("off" while not run)
    m_r_pc,         \* memory orderings: consumer position
    m_w_cur,        \* memory orderings: swap_write_retry's `current` and the store it was read from
    m_r_cur,        \* memory orderings: try_swap_read's `current` and the store it was read from
    m_w_try,        \* memory orderings: swap_write_retry's loop counter
    m_w_slot,       \* memory orderings: slot of the WriteHandle
    m_r_slot,       \* memory orderings: slot of the ReadHandle
    m_seq,          \* memory orderings: Write Guards obtained so far
    m_acq,          \* memory orderings: per thread, the latest store it has read with acquire
    m_rel_w,        \* memory orderings: per slot, the store that released the producer's latest writes
    m_rel_r,        \* memory orderings: per slot, the store that released the consumer's latest reads
    h_m_race,       \* history: an access to a slot not ordered after the other thread's ("none", "read", "write")
    h_m_aba         \* history: a CAS succeeded on another store than the one its thread had loaded

vars == <<encoded_state, buffers, w_borrowers, w_pc, w_guard, w_fill, w_seq, w_cur,
          w_try, r_borrowers, r_pc, r_cur, r_guards, r_tmp, h_call, h_pub, h_rel,
          h_dropped, h_quiet, h_max, h_obs, h_spurious, h_pre, h_unread,
          c_pc, c_s0, c_w0, c_s, c_w, c_m,
          t_pc, t_dt, t_st, t_prev, t_st_now, t_sounding, t_tx, t_beeper,
          h_t_dec, h_t_decs, h_t_raced, h_t_send,
          k_on, k_keys, k_key_state, k_last_key, k_vx, k_pc, h_k_exec, h_k_cycles,
          s_main, s_render, s_input, s_running_state, s_terminal, s_events, s_message,
          s_input_tx, h_loop,
          m_word, m_pos, m_w_pc, m_r_pc, m_w_cur, m_r_cur, m_w_try, m_w_slot, m_r_slot,
          m_seq, m_acq, m_rel_w, m_rel_r, h_m_race, h_m_aba>>

c_vars == <<c_pc, c_s0, c_w0, c_s, c_w, c_m>>
\* The parts of the emulator around the buffer: they run in specifications
\* of their own.
t_vars == <<t_pc, t_dt, t_st, t_prev, t_st_now, t_sounding, t_tx, t_beeper,
            h_t_dec, h_t_decs, h_t_raced, h_t_send>>
k_vars == <<k_on, k_keys, k_key_state, k_last_key, k_vx, k_pc, h_k_exec, h_k_cycles>>
s_vars == <<s_main, s_render, s_input, s_running_state, s_terminal, s_events,
            s_message, s_input_tx>>
m_vars == <<m_word, m_pos, m_w_pc, m_r_pc, m_w_cur, m_r_cur, m_w_try, m_w_slot, m_r_slot,
            m_seq, m_acq, m_rel_w, m_rel_r, h_m_race, h_m_aba>>
w_vars == <<w_borrowers, w_pc, w_guard, w_fill, w_seq, w_cur, w_try>>
r_vars == <<r_borrowers, r_pc, r_cur, r_guards, r_tmp>>

NoCall == [solo |-> FALSE, still |-> FALSE, rel |-> Initial]
NoTmp == <<0, 0>>

\* TripleBuffer::state(): an atomic load, decoded.
state == decode(encoded_state)

\* triple_buffer(initial): TripleBuffer::new and the two handles.
BufferInit ==
    /\ encoded_state = encode(BufferState_new)
    /\ buffers = [i \in Slots |-> Full(Initial)]
    /\ w_borrowers = 0
    /\ w_pc = "idle"
    /\ w_guard = NoSlot
    /\ w_fill = 0
    /\ w_seq = 1
    /\ w_cur = 0
    /\ w_try = 0
    /\ r_borrowers = 0
    /\ r_pc = "idle"
    /\ r_cur = 0
    /\ r_guards = <<>>
    /\ r_tmp = NoTmp
    /\ h_call = NoCall
    /\ h_pub = Initial
    /\ h_rel = Initial
    /\ h_dropped = FALSE
    /\ h_quiet = FALSE
    /\ h_max = Initial
    /\ h_obs = [seen |-> Full(Initial), held |-> Full(Initial)]
    /\ h_spurious = FALSE
    /\ h_pre = 0
    /\ h_unread = FALSE

\* The codec exercise is not running.
CodecOff ==
    /\ c_pc = "off"
    /\ c_s0 = BufferState_new
    /\ c_w0 = 0
    /\ c_s = BufferState_new
    /\ c_w = 0
    /\ c_m = BufferState_new

\* No decrement stored yet, no message sent yet.
NoDec == [timer |-> "none", from |-> 0, before |-> 0, after |-> 0, raced |-> FALSE]
NoSend == [on |-> FALSE, st_now |-> 0, sounding |-> FALSE, last |-> "none"]

\* Chip8::new() and the locals of the thread of spawn_timers: both timers 0
\* (Chip8::default()), not sounding, nothing sent.
TimersNew ==
    /\ t_dt = 0
    /\ t_st = 0
    /\ t_prev = 0
    /\ t_st_now = 0
    /\ t_sounding = FALSE
    /\ t_tx = <<>>
    /\ t_beeper = "none"
    /\ h_t_dec = NoDec
    /\ h_t_decs = [dt |-> 0, st |-> 0]
    /\ h_t_raced = FALSE
    /\ h_t_send = NoSend

\* The timer thread is not spawned.
TimersOff == t_pc = "off" /\ TimersNew

\* Chip8::new(): pc at PROGRAM_START, the rest Chip8::default().
Chip8_new ==
    /\ k_keys = {}
    /\ k_key_state = "AwaitingPress"
    /\ k_last_key = 0
    /\ k_vx = 0
    /\ k_pc = PROGRAM_START
    /\ h_k_exec = [key_state |-> "none", keys |-> {}, last_key |-> 0, vx |-> 0,
                   pc |-> PROGRAM_START]
    /\ h_k_cycles = [begun |-> 0, ended |-> 0]

\* The CPU is not running.
KeypadOff == k_on = FALSE /\ Chip8_new

\* main up to the spawning of the threads: running_state Running, the
\* channel of the input thread empty, no terminal event yet.
Model_new ==
    /\ s_running_state = "Running"
    /\ s_terminal = <<>>
    /\ s_events = 0
    /\ s_message = "None"
    /\ s_input_tx = <<>>

\* The binary does not run.
ShutdownOff ==
    /\ s_main = "off"
    /\ s_render = "off"
    /\ s_input = "off"
    /\ Model_new

\* No CAS of a loop has been tried: nobody was overtaken between its load
\* and its CAS, no call has a failed CAS behind it.
NoRace ==
    [w_beaten |-> FALSE, r_beaten |-> FALSE, w_fail |-> 0, r_fail |-> 0,
     lonely |-> FALSE, orphan |-> FALSE]

\* TripleBuffer::new as the memory model sees it: the word and the slots are
\* initialised before the two handles go to their threads (store 0).
OrderNew ==
    /\ m_word = encode(BufferState_new)
    /\ m_pos = 0
    /\ m_w_cur = [word |-> 0, pos |-> 0]
    /\ m_r_cur = [word |-> 0, pos |-> 0]
    /\ m_w_try = 0
    /\ m_w_slot = NoSlot
    /\ m_r_slot = NoSlot
    /\ m_seq = 0
    /\ m_acq = [w |-> 0, r |-> 0]
    /\ m_rel_w = [i \in Slots |-> 0]
    /\ m_rel_r = [i \in Slots |-> 0]
    /\ h_m_race = "none"
    /\ h_m_aba = FALSE

\* The memory orderings are not being followed.
OrderOff == m_w_pc = "off" /\ m_r_pc = "off" /\ OrderNew

EmulatorOff == TimersOff /\ KeypadOff /\ ShutdownOff /\ h_loop = NoRace /\ OrderOff

Init == BufferInit /\ CodecOff /\ EmulatorOff

Max(a, b) == IF a >= b THEN a ELSE b

RemoveAt(q, i) == [j \in 1 .. Len(q) - 1 |-> IF j < i THEN q[j] ELSE q[j + 1]]

\* Every step of the producer ends the "producer silent" part of a read() call.
ProducerStep == h_call' = [h_call EXCEPT !.solo = FALSE, !.still = FALSE]

\* Every step of the consumer ends the "consumer silent" part of a write cycle.
ConsumerStep == h_quiet' = FALSE

(***************************************************************************)
(* Producer: TripleBufferWriter and WriteHandle.                           *)
(***************************************************************************)

\* Faulty variant: the test is off by one.
writer_active_above_one == w_borrowers > 1

\* write(): `self.borrowers.get() > 0`
writer_active == w_borrowers > 0

\* TripleBufferWriter::add_handle
w_add_handle == w_borrowers' = w_borrowers + 1

\* TripleBufferWriter::write(): load the state, panic when a guard is alive,
\* count the new guard and bind it to buffers[state.write_idx].
write ==
    /\ w_pc \in {"idle", "guard"}
    /\ w_seq <= MaxSeq
    /\ IF writer_active
       THEN /\ w_pc' = "panic_nested"
            /\ UNCHANGED <<w_borrowers, w_guard, w_fill, h_quiet>>
       ELSE /\ w_add_handle
            /\ h_quiet' = (r_borrowers = 0 /\ r_pc = "idle")
            /\ IF state.write_idx \in Slots
               THEN /\ w_guard' = state.write_idx
                    /\ w_fill' = 0
                    /\ w_pc' = "guard"
               ELSE /\ w_pc' = "panic_index"
                    /\ UNCHANGED <<w_guard, w_fill>>
    /\ ProducerStep
    /\ UNCHANGED <<encoded_state, buffers, w_seq, w_cur, w_try, r_vars,
                   h_pub, h_rel, h_dropped, h_max, h_obs, h_spurious>>
    /\ UNCHANGED <<h_pre, h_unread, c_vars, t_vars, k_vars, s_vars, m_vars, h_loop>>

\* WriteHandle::deref_mut: the producer stores its sequence number into the
\* payload one field at a time.
deref_mut ==
    /\ w_pc = "guard"
    /\ w_fill < 2
    /\ buffers' = [buffers EXCEPT ![w_guard][w_fill + 1] = w_seq]
    /\ w_fill' = w_fill + 1
    /\ ProducerStep
    /\ UNCHANGED <<encoded_state, w_borrowers, w_pc, w_guard, w_seq, w_cur, w_try,
                   r_vars, h_pub, h_rel, h_dropped, h_quiet, h_max, h_obs, h_spurious>>
    /\ UNCHANGED <<h_pre, h_unread, c_vars, t_vars, k_vars, s_vars, m_vars, h_loop>>

\* Drop for WriteHandle -> TripleBufferWriter::drop_handle -> swap_write ->
\* swap_write_retry(Retries), up to the load of its first attempt.
w_drop_handle ==
    /\ w_pc = "guard"
    /\ w_fill = 2
    /\ IF w_borrowers = 0
       THEN /\ w_pc' = "underflow"
            /\ UNCHANGED <<w_borrowers, w_cur, w_try, h_pre>>
       ELSE /\ w_borrowers' = w_borrowers - 1
            /\ w_try' = 0
            /\ w_cur' = encoded_state
            /\ h_pre' = encoded_state
            /\ w_pc' = "swap_cas"
    /\ ProducerStep
    /\ UNCHANGED <<encoded_state, buffers, w_guard, w_fill, w_seq, r_vars,
                   h_pub, h_rel, h_dropped, h_quiet, h_max, h_obs, h_spurious>>
    /\ UNCHANGED <<h_unread, c_vars, t_vars, k_vars, s_vars, m_vars, h_loop>>

\* swap_write_retry: the compare_exchange_weak of one attempt.
swap_write_retry_cas ==
    /\ w_pc = "swap_cas"
    /\ \E spur \in BOOLEAN :
         LET current_state == decode(w_cur)
             new_state == swap_write_new_state(current_state)
         IN  IF compare_exchange_weak(encoded_state, w_cur, spur)
             THEN /\ encoded_state' = encode(new_state)
                  /\ h_unread' = TRUE
                  /\ w_pc' = "idle"
                  /\ w_seq' = w_seq + 1
                  /\ h_pub' = w_seq
                  /\ h_rel' = w_seq
                  /\ h_dropped' = FALSE
                  /\ UNCHANGED <<w_try, h_spurious>>
             ELSE /\ h_spurious' = (h_spurious \/ encoded_state = w_cur)
                  /\ IF w_try < Retries
                     THEN /\ w_try' = w_try + 1
                          /\ w_pc' = "swap_load"
                     ELSE /\ w_pc' = "swap_fail"
                          /\ UNCHANGED w_try
                  /\ UNCHANGED <<h_unread, encoded_state, w_seq, h_pub, h_rel, h_dropped>>
    /\ ProducerStep
    /\ UNCHANGED <<buffers, w_borrowers, w_guard, w_fill, w_cur, r_vars,
                   h_quiet, h_max, h_obs>>
    /\ UNCHANGED <<h_pre, c_vars, t_vars, k_vars, s_vars, m_vars, h_loop>>

\* swap_write_retry: the load of a retry.
swap_write_retry_load ==
    /\ w_pc = "swap_load"
    /\ w_cur' = encoded_state
    /\ w_pc' = "swap_cas"
    /\ ProducerStep
    /\ UNCHANGED <<encoded_state, buffers, w_borrowers, w_guard, w_fill, w_seq, w_try,
                   r_vars, h_pub, h_rel, h_dropped, h_quiet, h_max, h_obs, h_spurious>>
    /\ UNCHANGED <<h_pre, h_unread, c_vars, t_vars, k_vars, s_vars, m_vars, h_loop>>

\* Faulty variant: no load after the loop, the word of the last attempt is
\* returned.
last_current_of_last_attempt == w_cur

\* swap_write_retry: `self.encoded_state.load(Ordering::Acquire)` after the loop.
last_current == encoded_state

\* swap_write_retry: every attempt failed; the final load, whose result the
\* caller discards.
swap_write_retry_exhausted ==
    /\ w_pc = "swap_fail"
    /\ w_cur' = last_current
    /\ w_pc' = "idle"
    /\ w_seq' = w_seq + 1
    /\ h_rel' = w_seq
    /\ h_dropped' = TRUE
    /\ ProducerStep
    /\ UNCHANGED <<encoded_state, buffers, w_borrowers, w_guard, w_fill, w_try,
                   r_vars, h_pub, h_quiet, h_max, h_obs, h_spurious>>
    /\ UNCHANGED <<h_pre, h_unread, c_vars, t_vars, k_vars, s_vars, m_vars, h_loop>>

(***************************************************************************)
(* Consumer: TripleBufferReader and ReadHandle.                            *)
(***************************************************************************)

\* Faulty variant: read() tries to advance whatever the counter says.
no_active_reads_ignored == TRUE

\* read(): `self.borrowers.get() == 0`
no_active_reads == r_borrowers = 0

\* Faulty variant: the guard is not counted.
r_add_handle_skipped == UNCHANGED r_borrowers

\* TripleBufferReader::add_handle
r_add_handle == r_borrowers' = r_borrowers + 1

\* The tail of read(): count the guard and bind it to buffers[st.read_idx].
ReadHandle_new(st, how, call) ==
    /\ r_add_handle
    /\ IF st.read_idx \in Slots
       THEN /\ r_guards' = Append(r_guards,
                   [slot |-> st.read_idx, val |-> buffers[st.read_idx], how |-> how,
                    solo |-> call.solo, still |-> call.still, rel |-> call.rel,
                    pub |-> h_pub, floor |-> h_max])
            /\ h_max' = Max(h_max, buffers[st.read_idx][1])
            /\ r_pc' = "idle"
       ELSE /\ r_pc' = "panic_index"
            /\ UNCHANGED <<r_guards, h_max>>

\* What holds when read() is called.  still: no Write Guard is alive or being
\* released.  solo: moreover the consumer was silent and guard-free during the
\* whole of the latest write cycle.  rel: the value of the latest Write Guard
\* whose release has returned.  Producer steps during the call clear both flags.
CallInfo ==
    [solo |-> (h_quiet /\ w_pc = "idle"), still |-> (w_pc = "idle"), rel |-> h_rel]

\* Faulty variant: the dirty test never returns early.
nothing_new_never(s) == FALSE

\* try_swap_read: `if !state.dirty { return state; }`
nothing_new(s) == ~s.dirty

\* TripleBufferReader::read() up to the first access of the atomic word:
\* try_swap_read's load when no guard is out, state() otherwise.
read ==
    /\ r_pc = "idle"
    /\ Len(r_guards) < MaxReaders
    /\ IF no_active_reads
       THEN LET current_state == decode(encoded_state)
            IN  IF nothing_new(current_state)
                THEN /\ ReadHandle_new(current_state, "clean", CallInfo)
                     /\ UNCHANGED <<r_cur, h_call>>
                ELSE /\ r_cur' = encoded_state
                     /\ r_pc' = "read_cas"
                     /\ h_call' = CallInfo
                     /\ UNCHANGED <<r_borrowers, r_guards, h_max>>
       ELSE /\ ReadHandle_new(state, "pinned", CallInfo)
            /\ UNCHANGED <<r_cur, h_call>>
    /\ ConsumerStep
    /\ UNCHANGED <<encoded_state, buffers, w_vars, r_tmp, h_pub, h_rel, h_dropped,
                   h_obs, h_spurious>>
    /\ UNCHANGED <<h_pre, h_unread, c_vars, t_vars, k_vars, s_vars, m_vars, h_loop>>

\* try_swap_read: the single compare_exchange_weak, and the rest of read().
try_swap_read_cas ==
    /\ r_pc = "read_cas"
    /\ \E spur \in BOOLEAN :
         LET current_state == decode(r_cur)
             new_state == try_swap_read_new_state(current_state)
         IN  IF compare_exchange_weak(encoded_state, r_cur, spur)
             THEN /\ encoded_state' = encode(new_state)
                  /\ h_unread' = FALSE
                  /\ ReadHandle_new(new_state, "swapped", h_call)
                  /\ UNCHANGED h_spurious
             ELSE /\ ReadHandle_new(current_state, "cas_failed", h_call)
                  /\ h_spurious' = (h_spurious \/ encoded_state = r_cur)
                  /\ UNCHANGED <<encoded_state, h_unread>>
    /\ h_call' = NoCall
    /\ ConsumerStep
    /\ UNCHANGED <<buffers, w_vars, r_cur, r_tmp, h_pub, h_rel, h_dropped, h_obs>>
    /\ UNCHANGED <<h_pre, c_vars, t_vars, k_vars, s_vars, m_vars, h_loop>>

\* ReadHandle::deref and a use of the payload: the first field is read.
deref_first ==
    /\ r_pc = "idle"
    /\ \E i \in 1 .. Len(r_guards) :
         r_tmp' = <<i, buffers[r_guards[i].slot][1]>>
    /\ r_pc' = "deref"
    /\ ConsumerStep
    /\ UNCHANGED <<encoded_state, buffers, w_vars, r_borrowers, r_cur, r_guards,
                   h_call, h_pub, h_rel, h_dropped, h_max, h_obs, h_spurious>>
    /\ UNCHANGED <<h_pre, h_unread, c_vars, t_vars, k_vars, s_vars, m_vars, h_loop>>

\* The second field is read through the same guard.
deref_second ==
    /\ r_pc = "deref"
    /\ h_obs' = [seen |-> <<r_tmp[2], buffers[r_guards[r_tmp[1]].slot][2]>>,
                 held |-> r_guards[r_tmp[1]].val]
    /\ r_tmp' = NoTmp
    /\ r_pc' = "idle"
    /\ ConsumerStep
    /\ UNCHANGED <<encoded_state, buffers, w_vars, r_borrowers, r_cur, r_guards,
                   h_call, h_pub, h_rel, h_dropped, h_max, h_spurious>>
    /\ UNCHANGED <<h_pre, h_unread, c_vars, t_vars, k_vars, s_vars, m_vars, h_loop>>

\* Drop for ReadHandle -> TripleBufferReader::drop_handle.
r_drop_handle ==
    /\ r_pc = "idle"
    /\ \E i \in 1 .. Len(r_guards) :
         IF r_borrowers = 0
         THEN /\ r_pc' = "underflow"
              /\ UNCHANGED <<r_borrowers, r_guards>>
         ELSE /\ r_borrowers' = r_borrowers - 1
              /\ r_guards' = RemoveAt(r_guards, i)
              /\ UNCHANGED r_pc
    /\ ConsumerStep
    /\ UNCHANGED <<encoded_state, buffers, w_vars, r_cur, r_tmp,
                   h_call, h_pub, h_rel, h_dropped, h_max, h_obs, h_spurious>>
    /\ UNCHANGED <<h_pre, h_unread, c_vars, t_vars, k_vars, s_vars, m_vars, h_loop>>

Next ==
    \/ write
    \/ deref_mut
    \/ w_drop_handle
    \/ swap_write_retry_cas
    \/ swap_write_retry_load
    \/ swap_write_retry_exhausted
    \/ read
    \/ try_swap_read_cas
    \/ deref_first
    \/ deref_second
    \/ r_drop_handle

Spec == Init /\ [][Next]_vars

(***************************************************************************)
(* BufferState::encode and BufferState::decode on their own: a state or a  *)
(* word is given, and the two functions are applied in turn.               *)
(***************************************************************************)
buffer_vars ==
    <<encoded_state, buffers, w_vars, r_vars, h_call, h_pub, h_rel, h_dropped,
      h_quiet, h_max, h_obs, h_spurious, h_pre, h_unread, h_loop, m_vars>>

\* The states whose indices fit a nibble.
NibbleStates ==
    [read_idx : 0 .. NibbleMax, ready_idx : 0 .. NibbleMax,
     write_idx : 0 .. NibbleMax, dirty : BOOLEAN]

\* Bits 0-15 of a word.
Low16(w) == w % ((NibbleMax + 1) * (NibbleMax + 1) * (NibbleMax + 1) * (NibbleMax + 1))

\* Values of bits 16 and up: the small ones, and bits 16-30 all set.
HighBits == (0 .. MaxHigh) \cup {2 ^ 15 - 1}

\* Every word of 16 low bits under each of the high parts.
Words == {lo + (2 ^ 16) * hi : lo \in 0 .. 2 ^ 16 - 1, hi \in HighBits}

InitCodec ==
    /\ BufferInit
    /\ EmulatorOff
    /\ c_s = BufferState_new
    /\ c_w = 0
    /\ c_m = BufferState_new
    /\ \/ /\ c_pc = "state"
          /\ c_s0 \in NibbleStates
          /\ c_w0 = 0
       \/ /\ c_pc = "word"
          /\ c_w0 \in Words
          /\ c_s0 = BufferState_new

\* state.encode(), of the state given or of the state just decoded.
codec_encode ==
    /\ c_pc \in {"state", "decoded"}
    /\ c_w' = encode(IF c_pc = "state" THEN c_s0 ELSE c_s)
    /\ c_pc' = IF c_pc = "state" THEN "encoded" ELSE "word_round"
    /\ UNCHANGED <<c_s0, c_w0, c_s, c_m>>
    /\ UNCHANGED <<buffer_vars, t_vars, k_vars, s_vars, m_vars, h_loop>>

\* BufferState::decode(word), of the word given or of the word just encoded;
\* the same word with bits 16 and up cleared is decoded beside it.
codec_decode ==
    /\ c_pc \in {"word", "encoded"}
    /\ LET word == IF c_pc = "word" THEN c_w0 ELSE c_w
       IN  /\ c_s' = decode(word)
           /\ c_m' = decode(Low16(word))
    /\ c_pc' = IF c_pc = "word" THEN "decoded" ELSE "state_round"
    /\ UNCHANGED <<c_s0, c_w0, c_w>>
    /\ UNCHANGED <<buffer_vars, t_vars, k_vars, s_vars, m_vars, h_loop>>

NextCodec ==
    \/ codec_encode
    \/ codec_decode

SpecCodec == InitCodec /\ [][NextCodec]_vars

(***************************************************************************)
(* Properties.                                                             *)
(***************************************************************************)

\* A Write Guard is alive: the producer may store through it.
WriteGuardLive == w_pc = "guard"

GuardIds == 1 .. Len(r_guards)

\* C1: in every reachable state, also between a load and its CAS on either
\* side, read_idx, ready_idx and write_idx of the packed state are pairwise
\* distinct and together are exactly {0,1,2}.
C1_RolesPartitionSlots ==
    LET s == decode(encoded_state)
    IN  /\ s.read_idx # s.ready_idx
        /\ s.read_idx # s.write_idx
        /\ s.ready_idx # s.write_idx
        /\ {s.read_idx, s.ready_idx, s.write_idx} = Slots

\* Both threads are between a load and its CAS, and the word has been changed
\* by two publishes since the consumer's load.
C1_Witness ==
    /\ r_pc = "read_cas"
    /\ w_pc = "swap_cas"
    /\ encoded_state # r_cur
    /\ h_pub >= 2

\* C2: the slot of a live Write Guard is never the slot of a live Read Guard,
\* in any interleaving of the two threads.
C2_GuardsDisjoint ==
    WriteGuardLive => \A i \in GuardIds : r_guards[i].slot # w_guard

\* The consumer is in the middle of reading a payload while the producer is in
\* the middle of storing one, after slots have changed roles on both sides.
C2_Witness ==
    /\ WriteGuardLive
    /\ w_fill = 1
    /\ r_pc = "deref"
    /\ Len(r_guards) = MaxReaders
    /\ r_guards[1].slot # 0
    /\ w_guard # 2

\* C3: with the producer writing 1, 2, 3, ... in successive Write Guards, the
\* value held by each Read Guard is at least every value held by a Read Guard
\* obtained before it.
C3_ReadsNeverDecrease ==
    \A i \in GuardIds : r_guards[i].val[1] >= r_guards[i].floor

\* A guard obtained after an earlier guard had already shown a written value,
\* and showing a later one.
C3_Witness ==
    \E i \in GuardIds :
        /\ r_guards[i].floor >= 1
        /\ r_guards[i].val[1] > r_guards[i].floor

\* C4: whatever is read through a Read Guard, at acquisition or field by field
\* later, is the initial value or the complete value of a Write Guard that has
\* been released; no read overlaps a write in progress on the same slot.
C4_NoTornRead ==
    /\ \E v \in 0 .. w_seq - 1 : h_obs.seen = Full(IF v = 0 THEN Initial ELSE v)
    /\ \A i \in GuardIds :
         /\ \E v \in 0 .. w_seq - 1 : r_guards[i].val = Full(IF v = 0 THEN Initial ELSE v)
         /\ ~(WriteGuardLive /\ w_fill > 0 /\ w_guard = r_guards[i].slot)
         /\ buffers[r_guards[i].slot][1] = buffers[r_guards[i].slot][2]

\* A written value has been read field by field while the producer was half
\* way through storing the next one.
C4_Witness ==
    /\ h_obs.seen = Full(2)
    /\ r_pc = "idle"
    /\ WriteGuardLive
    /\ w_fill = 1
    /\ w_seq = 3

\* C5: basic delivery.  A Write Guard is acquired, filled with v and released
\* while the consumer holds no guard and takes no step; the next read(), during
\* which the producer takes no step, returns a guard whose value is v.
C5_BasicDelivery ==
    \A i \in GuardIds : r_guards[i].solo => r_guards[i].val = Full(r_guards[i].rel)

\* C5 restricted to runs in which no compare_exchange_weak failed spuriously.
C5_BasicDeliveryStrongCas ==
    h_spurious \/ C5_BasicDelivery

\* C6: isolation while reading.  An open Read Guard keeps showing the value it
\* had when it was acquired, whatever is written and released meanwhile; and a
\* read() called when every guard of both sides has been released shows the
\* last value written.
C6_Isolation ==
    /\ h_obs.seen = h_obs.held
    /\ \A i \in GuardIds : buffers[r_guards[i].slot] = r_guards[i].val

C6_IsolationThenLatest ==
    /\ C6_Isolation
    /\ \A i \in GuardIds :
         (r_guards[i].how # "pinned" /\ r_guards[i].still)
             => r_guards[i].val = Full(r_guards[i].rel)

\* C6 restricted to runs in which no compare_exchange_weak failed spuriously.
C6_IsolationThenLatestStrongCas ==
    h_spurious \/ C6_IsolationThenLatest

\* C7: multi-reader pinning.  While a Read Guard is outstanding no step changes
\* read_idx, and every live guard, also one returned by a further read(), is
\* on that one slot, however many publishes happen meanwhile.
C7_Pinned ==
    [][r_borrowers > 0 =>
         /\ decode(encoded_state').read_idx = decode(encoded_state).read_idx
         /\ \A i \in 1 .. Len(r_guards') :
              r_guards'[i].slot = decode(encoded_state).read_idx]_vars

\* Two guards on one slot, the second obtained after two more publishes than
\* the first had seen.
C7_Witness ==
    /\ Len(r_guards) = 2
    /\ r_guards[2].how = "pinned"
    /\ r_guards[2].slot = r_guards[1].slot
    /\ r_guards[2].pub >= r_guards[1].pub + 2

\* Every guard returned by a read() called with no Read Guard outstanding holds
\* the value of the last Write Guard released before the call began.
C8_LatestRelease ==
    \A i \in GuardIds :
        r_guards[i].how # "pinned" => r_guards[i].val = Full(r_guards[i].rel)

C9_NestedWritePanics ==
    [][(write /\ w_borrowers > 0) =>
         /\ w_pc' = "panic_nested"
         /\ UNCHANGED <<w_borrowers, w_guard, w_fill, encoded_state, buffers>>]_vars

\* The panic has happened with a guard alive and half filled.
C9_Witness ==
    /\ w_pc = "panic_nested"
    /\ w_borrowers = 1
    /\ w_fill = 1
    /\ w_seq = 2

\* C10: nothing but a nested write() fails.  No operation indexes a slot outside
\* {0,1,2}, no counter underflows, and a failed CAS ends in a normal return.
C10_OnlyNestedWriteFails ==
    /\ r_pc \in {"idle", "read_cas", "deref"}
    /\ w_pc \in {"idle", "guard", "swap_cas", "swap_load", "swap_fail", "panic_nested"}
    /\ (w_pc = "panic_nested" => w_borrowers > 0)
    /\ r_borrowers >= 0
    /\ r_borrowers = Len(r_guards)
    /\ w_borrowers >= 0
    /\ decode(encoded_state).read_idx \in Slots
    /\ decode(encoded_state).write_idx \in Slots
    /\ \A i \in GuardIds : r_guards[i].slot \in Slots
    /\ w_guard \in Slots \cup {NoSlot}

\* A read() whose CAS failed has returned a guard and a release that exhausted
\* its attempts has returned, with both threads carrying on.
C10_Witness ==
    /\ h_dropped
    /\ \E i \in GuardIds : r_guards[i].how = "cas_failed"
    /\ r_pc = "idle"
    /\ w_pc = "guard"

\* The Write Guards alive: the one the producer holds, also after a nested
\* write() panicked under it.  A guard whose drop has begun is not alive.
LiveWriteGuards == IF w_pc \in {"guard", "panic_nested"} THEN 1 ELSE 0

\* C11: the writer's counter is 0 or 1 in every reachable state and equals the
\* number of live Write Guards.
C11_WriterCounter ==
    /\ w_borrowers \in {0, 1}
    /\ w_borrowers = LiveWriteGuards

\* The counter is 1 under the last guard, after a release that published and
\* one that did not, and it is 1 after a nested write() panicked.
C11_Witness ==
    /\ w_borrowers = 1
    /\ w_pc = "panic_nested"
    /\ w_seq = MaxSeq
    /\ h_dropped

\* A Write Guard release is in progress: swap_write_retry is running.
InPublish == w_pc \in {"swap_cas", "swap_load", "swap_fail"}

\* The load-CAS attempt swap_write_retry is in, or has just failed.
PublishAttempt == IF InPublish THEN w_try + 1 ELSE 0

\* Accesses to the atomic word the release in progress has made.
PublishSteps ==
    IF w_pc = "swap_cas" THEN 2 * w_try + 1
    ELSE IF w_pc = "swap_load" THEN 2 * w_try
    ELSE IF w_pc = "swap_fail" THEN 2 * w_try + 2
    ELSE 0

\* The thread whose variables a step changes.
ProducerMoves == w_vars' # w_vars
ConsumerMoves == r_vars' # r_vars

\* A release in progress finds no step of its own waiting: after a failed CAS
\* the reload and the final load are enabled, and a CAS whose expected word
\* the other thread has replaced is enabled (it fails and the code moves on).
C12_NoWaiting ==
    /\ (w_pc = "swap_cas" /\ encoded_state # w_cur) => ENABLED swap_write_retry_cas
    /\ w_pc = "swap_load" => ENABLED swap_write_retry_load
    /\ w_pc = "swap_fail" => ENABLED swap_write_retry_exhausted
    /\ (r_pc = "read_cas" /\ encoded_state # r_cur) => ENABLED try_swap_read_cas

\* A release makes at most 2 load-CAS attempts, 4 accesses before its last one.
C12_Bounded ==
    /\ PublishAttempt <= 2
    /\ PublishSteps <= 4

\* Every step of a release ends it or adds one to the accesses made; write()
\* and the release of a Read Guard take one step; read() takes its only CAS
\* in its second and last step.
C12_StepsAdvance ==
    /\ (ProducerMoves /\ InPublish) => (w_pc' = "idle" \/ PublishSteps' = PublishSteps + 1)
    /\ (ProducerMoves /\ w_pc = "idle") => w_pc' = "guard"
    /\ (ConsumerMoves /\ r_pc = "read_cas") => r_pc' = "idle"
    /\ (ConsumerMoves /\ r_pc = "idle" /\ Len(r_guards') < Len(r_guards)) => r_pc' = "idle"
    /\ (ConsumerMoves /\ r_pc = "idle" /\ r_pc' = "read_cas") =>
           (r_borrowers = 0 /\ decode(encoded_state).dirty)

\* C12: wait-freedom.  Whatever the other thread does, the next step of an
\* operation in progress is enabled, every step of a release ends it or adds
\* to the accesses made, a release makes at most 2 load-CAS attempts, and
\* read() makes at most 1 CAS attempt and returns after it.
C12_WaitFree == [](C12_NoWaiting /\ C12_Bounded) /\ [][C12_StepsAdvance]_vars

\* A release has used both attempts and is about to return without having
\* published, while the consumer is between its load and its CAS.
C12_Witness ==
    /\ w_pc = "swap_fail"
    /\ PublishAttempt = 2
    /\ PublishSteps = 4
    /\ r_pc = "read_cas"

\* Nothing is in progress and nothing is held: no write() was ever called
\* and the consumer is between calls with every Read Guard released.  The
\* state after construction is such a state.
Fresh ==
    /\ w_guard = NoSlot
    /\ r_pc = "idle"
    /\ r_guards = <<>>

\* C13: a freshly constructed buffer has read_idx 0, ready_idx 1, write_idx 2,
\* dirty false, both counters 0 and the initial value in every slot; a read()
\* before any publish returns a guard on the initial value (no exchange was
\* made) and the packed state is still the one of construction.
C13_FreshBuffer ==
    /\ Fresh =>
          /\ state = [read_idx |-> 0, ready_idx |-> 1, write_idx |-> 2, dirty |-> FALSE]
          /\ w_borrowers = 0
          /\ r_borrowers = 0
          /\ \A i \in Slots : buffers[i] = Full(Initial)
    /\ h_pub = Initial =>
          state = [read_idx |-> 0, ready_idx |-> 1, write_idx |-> 2, dirty |-> FALSE]
    /\ \A g \in GuardIds :
          r_guards[g].pub = Initial =>
              /\ r_guards[g].val = Full(Initial)
              /\ buffers[r_guards[g].slot] = Full(Initial)
              /\ r_guards[g].how \in {"clean", "pinned"}

\* Two read() calls before any publish, the second under the guard of the
\* first, while the first release of the producer is about to publish.
C13_Witness ==
    /\ h_pub = Initial
    /\ Len(r_guards) = 2
    /\ r_guards[1].how = "clean"
    /\ r_guards[2].how = "pinned"
    /\ w_pc = "swap_cas"
    /\ buffers[w_guard] = Full(1)

(***************************************************************************)
(* The variant of src/triple_buffer.rs: swap_write and try_swap_read are   *)
(* loops that repeat the load and the CAS until the CAS succeeds.  write,  *)
(* the guards and the counters are the same code.                          *)
(***************************************************************************)
\* write(), for the sequence numbers the loop runs are bounded to.
loop_write == write /\ w_seq <= LoopMaxSeq

\* read(), for the number of Read Guards the loop runs are bounded to.
loop_read == read /\ Len(r_guards) < LoopMaxReaders

\* Faulty variant: swap_write returns after a failed CAS.
loop_after_failure_returns == "idle"

\* swap_write: `loop { ... }`, a failed CAS is followed by the load again.
loop_after_failure == "swap_load"

\* swap_write: the compare_exchange_weak of one turn of the loop.  w_try
\* records that a CAS of this release has failed.
loop_swap_write_cas ==
    /\ w_pc = "swap_cas"
    /\ \E spur \in BOOLEAN :
         LET current_state == decode(w_cur)
             new_state == swap_write_new_state(current_state)
         IN  IF compare_exchange_weak(encoded_state, w_cur, spur)
             THEN /\ encoded_state' = encode(new_state)
                  /\ h_unread' = TRUE
                  /\ w_pc' = "idle"
                  /\ w_seq' = w_seq + 1
                  /\ h_pub' = w_seq
                  /\ h_rel' = w_seq
                  /\ h_dropped' = FALSE
                  /\ h_loop' = [h_loop EXCEPT !.w_beaten = FALSE, !.w_fail = 0,
                                              !.r_beaten = @ \/ r_pc = "read_cas"]
                  /\ UNCHANGED <<w_try, h_spurious>>
             ELSE /\ h_spurious' = (h_spurious \/ encoded_state = w_cur)
                  /\ w_try' = 1
                  /\ w_pc' = loop_after_failure
                  /\ h_loop' = [h_loop EXCEPT
                                   !.w_beaten = FALSE,
                                   !.w_fail = IF encoded_state # w_cur THEN @ + 1 ELSE @,
                                   !.lonely = @ \/ ~h_loop.w_beaten,
                                   !.orphan = @ \/ (encoded_state # w_cur /\ ~h_loop.w_beaten)]
                  /\ UNCHANGED <<h_unread, encoded_state, w_seq, h_pub, h_rel, h_dropped>>
    /\ ProducerStep
    /\ UNCHANGED <<buffers, w_borrowers, w_guard, w_fill, w_cur, r_vars,
                   h_quiet, h_max, h_obs>>
    /\ UNCHANGED <<h_pre, c_vars, t_vars, k_vars, s_vars, m_vars>>

\* swap_write: the CAS succeeds and swap_write returns.
loop_swap_write_cas_ok == loop_swap_write_cas /\ w_pc' = "idle"

\* swap_write: the load of a further turn of the loop.
loop_swap_write_load == swap_write_retry_load

\* Faulty variant: try_swap_read returns the state it loaded after a
\* successful CAS.
loop_try_swap_read_returns_loaded(current_state, new_state) == current_state

\* try_swap_read: `return new_state` after a successful CAS.
loop_try_swap_read_returns(current_state, new_state) == new_state

\* try_swap_read: the compare_exchange_weak of one turn of the loop.
loop_try_swap_read_cas ==
    /\ r_pc = "read_cas"
    /\ \E spur \in BOOLEAN :
         LET current_state == decode(r_cur)
             new_state == try_swap_read_new_state(current_state)
         IN  IF compare_exchange_weak(encoded_state, r_cur, spur)
             THEN /\ encoded_state' = encode(new_state)
                  /\ h_unread' = FALSE
                  /\ ReadHandle_new(loop_try_swap_read_returns(current_state, new_state),
                                    "swapped", h_call)
                  /\ h_call' = NoCall
                  /\ h_loop' = [h_loop EXCEPT !.r_beaten = FALSE, !.r_fail = 0,
                                              !.w_beaten = @ \/ w_pc = "swap_cas"]
                  /\ UNCHANGED h_spurious
             ELSE /\ h_spurious' = (h_spurious \/ encoded_state = r_cur)
                  /\ r_pc' = "read_load"
                  /\ h_loop' = [h_loop EXCEPT
                                   !.r_beaten = FALSE,
                                   !.r_fail = IF encoded_state # r_cur THEN @ + 1 ELSE @,
                                   !.lonely = @ \/ ~h_loop.r_beaten,
                                   !.orphan = @ \/ (encoded_state # r_cur /\ ~h_loop.r_beaten)]
                  /\ UNCHANGED <<h_unread, encoded_state, r_borrowers, r_guards, h_max, h_call>>
    /\ ConsumerStep
    /\ UNCHANGED <<buffers, w_vars, r_cur, r_tmp, h_pub, h_rel, h_dropped, h_obs>>
    /\ UNCHANGED <<h_pre, c_vars, t_vars, k_vars, s_vars, m_vars>>

\* try_swap_read: the load of a further turn of the loop and its dirty test.
loop_try_swap_read_load ==
    /\ r_pc = "read_load"
    /\ LET current_state == decode(encoded_state)
       IN  IF nothing_new(current_state)
           THEN /\ ReadHandle_new(current_state, "clean", h_call)
                /\ h_call' = NoCall
                /\ h_loop' = [h_loop EXCEPT !.r_fail = 0]
                /\ UNCHANGED r_cur
           ELSE /\ r_cur' = encoded_state
                /\ r_pc' = "read_cas"
                /\ UNCHANGED <<r_borrowers, r_guards, h_max, h_call, h_loop>>
    /\ ConsumerStep
    /\ UNCHANGED <<encoded_state, buffers, w_vars, r_tmp, h_pub, h_rel, h_dropped,
                   h_obs, h_spurious>>
    /\ UNCHANGED <<h_pre, h_unread, c_vars, t_vars, k_vars, s_vars, m_vars>>

NextLoop ==
    \/ loop_write
    \/ deref_mut
    \/ w_drop_handle
    \/ loop_swap_write_cas
    \/ loop_swap_write_load
    \/ loop_read
    \/ loop_try_swap_read_cas
    \/ loop_try_swap_read_load
    \/ r_drop_handle

SpecLoop == Init /\ [][NextLoop]_vars

\* The producer thread keeps running, and a CAS that is tried again and again
\* on an unchanged word does not fail spuriously for ever.
FairLoop ==
    /\ WF_vars(loop_swap_write_cas)
    /\ WF_vars(loop_swap_write_load)
    /\ SF_vars(loop_swap_write_cas_ok)

SpecLoopFair == SpecLoop /\ FairLoop

(***************************************************************************)
(* The buffer as src/bin/oxid8.rs uses it: the main loop takes a Write     *)
(* Guard, stores and releases it, and at some point stops; the render      *)
(* thread takes a Read Guard, draws and releases it before it reads again. *)
(***************************************************************************)
\* The main loop: `let mut send_handle = buf_tx.write();`
deliver_write == write /\ w_seq <= DeliverMaxSeq

\* The main loop ends between two iterations: the producer makes no step
\* any more.
deliver_stop ==
    /\ w_pc = "idle"
    /\ w_pc' = "stopped"
    /\ UNCHANGED <<encoded_state, buffers, w_borrowers, w_guard, w_fill, w_seq, w_cur,
                   w_try, r_vars, h_call, h_pub, h_rel, h_dropped, h_quiet, h_max,
                   h_obs, h_spurious, h_pre, h_unread, c_vars, t_vars, k_vars, s_vars, m_vars, h_loop>>

\* The render thread: `let read_handle = buf_rx.read();`, the guard of the
\* iteration before having been dropped at the end of its block.
deliver_read == read /\ no_active_reads

\* try_swap_read: the compare_exchange_weak succeeds.
try_swap_read_cas_ok == try_swap_read_cas /\ encoded_state' # encoded_state

NextDeliver ==
    \/ deliver_write
    \/ deref_mut
    \/ w_drop_handle
    \/ swap_write_retry_cas
    \/ swap_write_retry_load
    \/ swap_write_retry_exhausted
    \/ deliver_stop
    \/ deliver_read
    \/ try_swap_read_cas
    \/ r_drop_handle

SpecDeliver == Init /\ [][NextDeliver]_vars

\* The render thread keeps running: it reads, releases and reads again; and
\* a CAS tried again and again on an unchanged word does not fail spuriously
\* for ever.  Nothing is assumed of the producer.
FairDeliver ==
    /\ WF_vars(deliver_read)
    /\ WF_vars(try_swap_read_cas)
    /\ WF_vars(r_drop_handle)
    /\ SF_vars(try_swap_read_cas_ok)

SpecDeliverFair == SpecDeliver /\ FairDeliver

\* The dirty flag as the value of its nibble.
DirtyNibble(s) == IF s.dirty THEN 1 ELSE 0

\* C14: decode(encode(s)) = s for every state s whose three indices fit a
\* nibble (0..15), the permutations of {0,1,2} and the index 3 among them,
\* with dirty true and false.
C14_RoundTrip ==
    c_pc = "state_round" => c_s = c_s0

\* A round trip of a state with dirty set and three different indices, 3 one
\* of them, has been made.
C14_Witness ==
    /\ c_pc = "state_round"
    /\ c_s0 = [read_idx |-> 3, ready_idx |-> 0, write_idx |-> NibbleMax, dirty |-> TRUE]

\* C15: decode ignores the bits above bit 15, decode(w) = decode(w mod 2^16);
\* and when the dirty nibble of w is 0 or 1, encode(decode(w)) is w with its
\* bits above 15 cleared.
C15_HighBitsIgnored ==
    /\ c_pc \in {"decoded", "word_round"} => c_s = c_m
    /\ (c_pc = "word_round" /\ (c_w0 \div 4096) % 16 \in {0, 1}) => c_w = Low16(c_w0)

\* A word with bits set above bit 15, dirty nibble 1 and three different
\* index nibbles has been decoded and encoded again.
C15_Witness ==
    /\ c_pc = "word_round"
    /\ c_w0 \div (2 ^ 16) = 2 ^ 15 - 1
    /\ c_s = [read_idx |-> 2, ready_idx |-> 0, write_idx |-> 1, dirty |-> TRUE]

\* C16: encode puts read_idx in bits 0-3, ready_idx in bits 4-7, write_idx in
\* bits 8-11 and the dirty flag in bits 12-15 (nibble 1 when dirty, 0 when
\* clean) and leaves every bit above 15 zero, for indices in 0..15.
C16_BitLayout ==
    c_pc \in {"encoded", "state_round"} =>
        /\ c_w % 16 = c_s0.read_idx
        /\ (c_w \div 16) % 16 = c_s0.ready_idx
        /\ (c_w \div 256) % 16 = c_s0.write_idx
        /\ (c_w \div 4096) % 16 = DirtyNibble(c_s0)
        /\ c_w \div 65536 = 0

\* A dirty state with every index at 15 has been encoded: all of bits 0-11
\* and bit 12 are set.
C16_Witness ==
    /\ c_pc = "encoded"
    /\ c_s0 = [read_idx |-> NibbleMax, ready_idx |-> NibbleMax, write_idx |-> NibbleMax,
               dirty |-> TRUE]
    /\ c_w = 2 ^ 13 - 1

\* The release in progress returns in this step: the slot its guard wrote is
\* the ready slot of the new packed state, dirty is set, and the value
\* written is the one published.
C17_Published ==
    (InPublish /\ w_pc' = "idle") =>
        /\ decode(encoded_state').ready_idx = w_guard
        /\ decode(encoded_state').dirty
        /\ buffers[w_guard] = Full(w_seq)
        /\ h_pub' = w_seq
        /\ ~h_dropped'

\* C17: in the unbounded-retry variant every Write Guard release returns, and
\* when it returns the slot the guard wrote is the ready slot and dirty is
\* set: no release returns without having published, whatever the consumer
\* does in between.
C17_NoUpdateDropped ==
    /\ [][C17_Published]_vars
    /\ InPublish ~> w_pc = "idle"

\* A release whose first CAS failed because the consumer had exchanged the
\* read and ready slots in between has returned, its value published.
C17_Witness ==
    /\ w_pc = "idle"
    /\ w_try = 1
    /\ ~h_spurious
    /\ h_pub = 2
    /\ state.dirty
    /\ buffers[state.ready_idx] = Full(2)

\* C18: a successful publish exchanges write_idx and ready_idx and sets dirty,
\* and changes nothing else of the packed state: the slot that was the write
\* slot (the one the guard wrote) becomes the ready slot and the slot that
\* was ready becomes the write slot, also when dirty was already set.
C18_PublishSwaps ==
    [][(w_pc = "swap_cas" /\ w_pc' = "idle") =>
          /\ state.write_idx = w_guard
          /\ decode(encoded_state').ready_idx = state.write_idx
          /\ decode(encoded_state').write_idx = state.ready_idx
          /\ decode(encoded_state').read_idx = state.read_idx
          /\ decode(encoded_state').dirty
          /\ encoded_state' = encode(decode(encoded_state'))]_vars

\* The second publish has succeeded and no read() has obtained anything but
\* the initial value: the first update was still unread, dirty was set, when
\* the second replaced it.
C18_Witness ==
    /\ w_pc = "idle"
    /\ h_pub = 2
    /\ h_max = Initial
    /\ ~h_dropped
    /\ state = [read_idx |-> 0, ready_idx |-> 1, write_idx |-> 2, dirty |-> TRUE]

\* C19: only the ready role is contended.  No step of the producer (write(),
\* the stores through the guard, a publish that succeeds or fails) changes
\* read_idx, and no step of the consumer (read(), its CAS, the loads through
\* a guard, the release of a guard) changes write_idx.
C19_OnlyReadyContended ==
    [][/\ ProducerMoves => decode(encoded_state').read_idx = state.read_idx
       /\ ConsumerMoves => decode(encoded_state').write_idx = state.write_idx]_vars

\* Both threads have changed the packed state, the latest release has
\* returned without publishing, and the consumer is between its load and its
\* CAS.
C19_Witness ==
    /\ h_dropped
    /\ state.read_idx # 0
    /\ state.write_idx # 2
    /\ r_pc = "read_cas"

\* A step that is a read() call, up to its first access of the atomic word.
ReadCalled ==
    /\ r_pc = "idle"
    /\ \/ r_pc' = "read_cas"
       \/ Len(r_guards') = Len(r_guards) + 1

\* C20: when try_swap_read loads a state whose dirty flag is clear it returns
\* that state without a CAS and the packed state is unchanged: the read()
\* that called it returns a guard on the read slot of that state.  No CAS is
\* ever attempted on a word loaded clean.
C20_CleanLoadReturns ==
    [][/\ (ReadCalled /\ r_borrowers = 0 /\ ~state.dirty) =>
            /\ r_pc' = "idle"
            /\ encoded_state' = encoded_state
            /\ r_guards'[Len(r_guards')].slot = state.read_idx
            /\ r_guards'[Len(r_guards')].val = buffers[state.read_idx]
            /\ r_guards'[Len(r_guards')].how = "clean"
       /\ r_pc' = "read_cas" => decode(r_cur').dirty]_vars

\* A read() that found dirty clear after an earlier exchange holds a guard on
\* the first value published, while the producer is about to publish again.
C20_Witness ==
    /\ \E g \in GuardIds :
          /\ r_guards[g].how = "clean"
          /\ r_guards[g].val = Full(1)
          /\ r_guards[g].slot = state.read_idx
    /\ ~state.dirty
    /\ w_pc = "swap_cas"

\* The guard the latest read() returned: the youngest of r_guards.
LastGuard(guards) == guards[Len(guards)]

\* The step is the CAS of try_swap_read and the CAS succeeded.
AdvanceSucceeds ==
    /\ r_pc = "read_cas"
    /\ ConsumerMoves
    /\ \/ encoded_state' # encoded_state
       \/ (Len(r_guards') > Len(r_guards) /\ LastGuard(r_guards').how = "swapped")

\* The step is the CAS of try_swap_read and the CAS failed.
AdvanceFails ==
    /\ r_pc = "read_cas"
    /\ ConsumerMoves
    /\ ~AdvanceSucceeds

\* C21: when try_swap_read loaded a dirty state and its CAS succeeds, the
\* packed state changes by read_idx and ready_idx exchanged and dirty
\* cleared, write_idx unchanged, and the state returned is the new one: the
\* guard of the read() is on the slot that was ready.
C21_AdvanceSwaps ==
    [][AdvanceSucceeds =>
          /\ state.dirty
          /\ decode(encoded_state').read_idx = state.ready_idx
          /\ decode(encoded_state').ready_idx = state.read_idx
          /\ decode(encoded_state').write_idx = state.write_idx
          /\ ~decode(encoded_state').dirty
          /\ encoded_state' = encode(decode(encoded_state'))
          /\ r_pc' = "idle"
          /\ Len(r_guards') = Len(r_guards) + 1
          /\ LastGuard(r_guards').slot = state.ready_idx
          /\ LastGuard(r_guards').slot = decode(encoded_state').read_idx
          /\ LastGuard(r_guards').val = buffers[state.ready_idx]]_vars

\* An advance has taken the second value published while the producer is
\* storing the third.
C21_Witness ==
    /\ \E g \in GuardIds :
          /\ r_guards[g].how = "swapped"
          /\ r_guards[g].val = Full(2)
          /\ r_guards[g].slot = state.read_idx
    /\ ~state.dirty
    /\ w_pc = "guard"
    /\ w_fill = 1

\* C22: when the single CAS of try_swap_read fails the consumer does not try
\* again and stores nothing: read() returns a guard on the slot that was the
\* read slot when the call loaded the state, and that slot is still the read
\* slot of the packed state stored at the moment of the return, although the
\* state returned was loaded before the publish that made the CAS fail.
C22_FailedAdvance ==
    [][AdvanceFails =>
          /\ encoded_state' = encoded_state
          /\ r_pc' = "idle"
          /\ Len(r_guards') = Len(r_guards) + 1
          /\ LastGuard(r_guards').how = "cas_failed"
          /\ LastGuard(r_guards').slot = decode(r_cur).read_idx
          /\ LastGuard(r_guards').slot = decode(encoded_state').read_idx
          /\ LastGuard(r_guards').val = buffers[decode(r_cur).read_idx]]_vars

\* A read() lost its CAS to a publish (no CAS ever failed spuriously): the
\* packed state is no longer the one the call loaded, and the guard is on
\* its read slot.
C22_Witness ==
    /\ ~h_spurious
    /\ r_pc = "idle"
    /\ Len(r_guards) = 1
    /\ r_guards[1].how = "cas_failed"
    /\ encoded_state # r_cur
    /\ r_guards[1].slot = state.read_idx
    /\ state.dirty

\* A step of a release that does not end it with a successful CAS: a failed
\* CAS, the load of the retry, the load after the loop.
PublishStepWithoutSuccess ==
    /\ InPublish
    /\ ProducerMoves
    /\ ~(w_pc = "swap_cas" /\ w_pc' = "idle")

\* swap_write_retry returns in this step after all its attempts failed; the
\* state it returns is decode(w_cur').
PublishExhausted == w_pc = "swap_fail" /\ w_pc' = "idle"

\* The statement as written: no change to the packed state, and the state
\* returned is the one the packed word held before the first attempt.
C23_ReturnsPreAttemptState ==
    [][/\ PublishStepWithoutSuccess => encoded_state' = encoded_state
       /\ PublishExhausted => w_cur' = h_pre]_vars

\* C23: when every CAS attempt of swap_write_retry fails (the first and the
\* retry), no step of the call changes the packed state, and the state
\* returned is the one decoded from a load made after the last attempt: the
\* packed state at the moment of the return, which the consumer may have
\* changed since the call began.
C23_ReturnsCurrentState ==
    [][/\ PublishStepWithoutSuccess => encoded_state' = encoded_state
       /\ PublishExhausted =>
            /\ w_cur' = encoded_state
            /\ h_dropped'
            /\ h_pub' = h_pub]_vars

\* A release has returned without publishing, and the state it returned is
\* the packed state of that moment and not the one of before its attempts,
\* the consumer having advanced in between.
C23_Witness ==
    /\ h_dropped
    /\ w_pc = "idle"
    /\ w_cur = encoded_state
    /\ w_cur # h_pre
    /\ w_cur # encode(swap_write_new_state(decode(h_pre)))

\* The slots a Read Guard can be on now or after the next advance.
VisibleSlots == {state.read_idx, state.ready_idx}

\* While the latest release is one that returned without publishing (its
\* value is h_rel): the write slot is still the slot of that guard, the value
\* is in no slot the reader can see nor under any live Read Guard, and no
\* read() has ever obtained it.
C24_DroppedStaysHidden ==
    h_dropped =>
        /\ h_rel > h_pub
        /\ ~InPublish => state.write_idx = w_guard
        /\ \A i \in VisibleSlots : buffers[i][1] # h_rel /\ buffers[i][2] # h_rel
        /\ \A g \in GuardIds :
              /\ r_guards[g].slot # w_guard
              /\ r_guards[g].val # Full(h_rel)
              /\ buffers[r_guards[g].slot] # Full(h_rel)
        /\ h_max < h_rel

\* The release that fails leaves write_idx, the packed state and every slot
\* as they are, and the write() that follows it binds its guard to the slot
\* of the failed guard, which the producer then stores into.
C24_DroppedStep ==
    /\ PublishExhausted =>
          /\ decode(encoded_state').write_idx = w_guard
          /\ encoded_state' = encoded_state
          /\ buffers' = buffers
    /\ (h_dropped /\ w_pc = "idle" /\ w_pc' = "guard") => w_guard' = w_guard
    /\ (h_dropped /\ w_pc = "guard" /\ buffers' # buffers) =>
          /\ \A i \in VisibleSlots : buffers'[i] = buffers[i]
          /\ buffers'[w_guard] # buffers[w_guard]

\* C24: when a Write Guard's release fails to publish, write_idx is unchanged
\* and the next write() returns a guard on the same slot, which may be
\* overwritten; what was written under the failed guard is seen by no Read
\* Guard, and the failure alters no slot the reader can see.
C24_FailedPublishHidden ==
    /\ []C24_DroppedStaysHidden
    /\ [][C24_DroppedStep]_vars

\* After a release that did not publish, the next guard is on the same slot
\* and half overwritten, while a Read Guard obtained since is live.
C24_Witness ==
    /\ h_dropped
    /\ w_pc = "guard"
    /\ w_fill = 1
    /\ buffers[w_guard] = <<h_rel + 1, h_rel>>
    /\ Len(r_guards) = 1
    /\ r_guards[1].val = Full(h_pub)
    /\ h_pub >= 1

\* The counter of the reader is the number of live Read Guards, and the CAS
\* of try_swap_read is only ever pending with the counter at zero.
C25_CounterIsGuards ==
    /\ r_borrowers = Len(r_guards)
    /\ r_pc = "read_cas" => r_borrowers = 0

\* read() with the counter at zero goes through try_swap_read (a clean load,
\* or a CAS to come); with the counter above zero it loads the state and
\* returns a guard on its read slot.  Such a read() and the release of a Read
\* Guard store nothing; the only store of the consumer is the CAS made with
\* the counter at zero.
C25_AdvanceOnlyAtZero ==
    /\ (ReadCalled /\ r_borrowers = 0) =>
          \/ r_pc' = "read_cas"
          \/ LastGuard(r_guards').how = "clean"
    /\ (ReadCalled /\ r_borrowers > 0) =>
          /\ r_pc' = "idle"
          /\ encoded_state' = encoded_state
          /\ LastGuard(r_guards').how = "pinned"
          /\ LastGuard(r_guards').slot = state.read_idx
          /\ \A g \in GuardIds : r_guards[g].slot = LastGuard(r_guards').slot
    /\ Len(r_guards') < Len(r_guards) =>
          /\ encoded_state' = encoded_state
          /\ r_borrowers' = r_borrowers - 1
    /\ (ConsumerMoves /\ encoded_state' # encoded_state) =>
          /\ r_pc = "read_cas"
          /\ r_borrowers = 0

\* C25: read() attempts to advance exactly when the reader's counter of
\* outstanding guards is zero at the call; with the counter above zero it
\* only loads the state; neither such a read() nor the release of a Read
\* Guard stores to the packed state; the counter equals the number of live
\* Read Guards, so the next read() can advance only once all are released.
C25_AdvanceGatedByCounter ==
    /\ []C25_CounterIsGuards
    /\ [][C25_AdvanceOnlyAtZero]_vars

\* A read() made under a live guard has not advanced although an unread
\* update is there: both guards are on the slot the first one advanced to.
C25_Witness ==
    /\ Len(r_guards) = 2
    /\ r_guards[1].how = "swapped"
    /\ r_guards[2].how = "pinned"
    /\ r_guards[2].val = Full(1)
    /\ state.dirty
    /\ h_pub = 2

\* C26: the dirty flag marks an unread update exactly: in every reachable
\* state dirty is set if and only if a publish has succeeded since the most
\* recent successful advance, or since creation when none has succeeded.
C26_DirtyMarksUnread ==
    state.dirty <=> h_unread

\* The consumer has advanced to the second value published and a third
\* release has since returned without publishing: nothing is unread and
\* dirty is clear.
C26_Witness ==
    /\ ~state.dirty
    /\ h_pub = 2
    /\ h_dropped
    /\ \E g \in GuardIds : r_guards[g].how = "swapped" /\ r_guards[g].val = Full(2)
    /\ w_pc = "idle"

\* C27: a Write Guard is bound to the slot write_idx named when write() was
\* called, and as long as that guard lives write_idx of the packed state is
\* the guard's slot, whatever the consumer does; as long as a Read Guard
\* lives read_idx of the packed state is the slot of every live Read Guard.
\* No guard is ever on the ready slot.
C27_GuardsTrackRoles ==
    /\ LiveWriteGuards = 1 =>
          /\ state.write_idx = w_guard
          /\ state.ready_idx # w_guard
    /\ \A g \in GuardIds :
          /\ r_guards[g].slot = state.read_idx
          /\ r_guards[g].slot # state.ready_idx

\* A Write Guard is live and half written, two Read Guards are live, the
\* consumer has advanced and the producer has published since the guards
\* were obtained.
C27_Witness ==
    /\ w_pc = "guard"
    /\ w_fill = 1
    /\ Len(r_guards) = 2
    /\ state.dirty
    /\ state.read_idx # 0
    /\ state.write_idx # 2
    /\ h_pub > r_guards[1].pub

\* C28: freshness.  In every reachable state the value of the most recent
\* successful publish (the initial value when there is none) is in the ready
\* slot when dirty is set and in the read slot when dirty is clear, and while
\* dirty is set the ready slot holds nothing older than the read slot.
C28_Freshness ==
    /\ state.dirty => buffers[state.ready_idx] = Full(h_pub)
    /\ ~state.dirty => buffers[state.read_idx] = Full(h_pub)
    /\ state.dirty =>
          /\ buffers[state.ready_idx][1] >= buffers[state.read_idx][1]
          /\ buffers[state.ready_idx][2] >= buffers[state.read_idx][2]

\* The third value is published and unread while a Read Guard is on the
\* first: the second was replaced without ever being read.
C28_Witness ==
    /\ state.dirty
    /\ h_pub = 3
    /\ buffers[state.read_idx] = Full(1)
    /\ Len(r_guards) = 1
    /\ r_guards[1].val = Full(1)
    /\ h_max = 1

\* C29: when no compare_exchange_weak fails spuriously (a CAS fails only on a
\* word that differs from the expected one), a release with the default
\* single retry never runs out of attempts: the consumer changes the word at
\* most once between two successful publishes, so every Write Guard release
\* publishes.
C29_NoDropWithoutSpuriousFailure ==
    h_spurious \/
        /\ w_pc # "swap_fail"
        /\ ~h_dropped
        /\ h_rel = h_pub

\* Without any spurious failure, the second release lost its first CAS to an
\* advance of the consumer and published with its retry.
C29_Witness ==
    /\ ~h_spurious
    /\ w_pc = "idle"
    /\ w_try = 1
    /\ h_pub = 2
    /\ h_rel = 2
    /\ encoded_state # h_pre
    /\ encoded_state # encode(swap_write_new_state(decode(h_pre)))

\* The producer has stopped and its last release published.
StoppedAfterPublish ==
    /\ w_pc = "stopped"
    /\ h_pub >= 1
    /\ h_rel = h_pub
    /\ ~h_dropped

\* A Read Guard holds the value of the last publish.
LastValueRead == \E g \in GuardIds : r_guards[g].val = Full(h_pub)

\* Once the producer has stopped after a publish and a read() has obtained
\* the value last published, every read() that returns holds that value.
C30_LaterReadsReturnLast ==
    (StoppedAfterPublish /\ h_max = h_pub /\ Len(r_guards') > Len(r_guards)) =>
        /\ LastGuard(r_guards').val = Full(h_pub)
        /\ buffers[LastGuard(r_guards').slot] = Full(h_pub)

\* C30: eventual delivery.  When the producer stops after a Write Guard
\* release that published, and the consumer keeps calling read() with no
\* Read Guard outstanding, then, the CAS not failing spuriously for ever,
\* some read() returns the value last published and every later read()
\* returns it as well.
C30_EventualDelivery ==
    /\ StoppedAfterPublish ~> LastValueRead
    /\ [][C30_LaterReadsReturnLast]_vars

\* The producer has stopped after its second publish, and a read() whose CAS
\* failed has returned the first value: the last one is still to be read.
C30_Witness ==
    /\ StoppedAfterPublish
    /\ h_pub = 2
    /\ state.dirty
    /\ Len(r_guards) = 1
    /\ r_guards[1].how = "cas_failed"
    /\ r_guards[1].val = Full(1)

\* C38: as the example in the documentation of decode states, decode(0x1082)
\* is read_idx 2, ready_idx 0, write_idx 1, dirty true.
C38_DocExample ==
    (c_pc = "decoded" /\ c_w0 = DocExampleWord) =>
        c_s = [read_idx |-> 2, ready_idx |-> 0, write_idx |-> 1, dirty |-> TRUE]

\* What decode makes of the word of the example, and the word encode makes
\* of the state of the example (0x1102).
C38_DocExampleAsDecoded ==
    /\ (c_pc = "decoded" /\ c_w0 = DocExampleWord) =>
          c_s = [read_idx |-> 2, ready_idx |-> 8, write_idx |-> 0, dirty |-> TRUE]
    /\ (c_pc = "encoded"
          /\ c_s0 = [read_idx |-> 2, ready_idx |-> 0, write_idx |-> 1, dirty |-> TRUE]) =>
          c_w = 4096 + 256 + 2

(***************************************************************************)
(* The timers (src/src/timers.rs): the timer thread of spawn_timers ticks  *)
(* at 60 Hz on the two AtomicU8 the CPU thread stores to (LD DT,Vx and     *)
(* LD ST,Vx), and sends the sound on / off messages main passes to the     *)
(* beeper.                                                                 *)
(***************************************************************************)
\* The values of Vx the CPU thread stores into a timer.
TimerValues == 0 .. MaxTimer

\* The closure of both fetch_update calls: (v > 0).then(|| v - 1); the
\* subtraction is that of a u8.
checked_decrement_wraps(v) == [some |-> TRUE, next |-> (v + U8Max) % (U8Max + 1)]
checked_decrement(v) ==
    IF v > 0 THEN [some |-> TRUE, next |-> (v - 1) % (U8Max + 1)]
    ELSE [some |-> FALSE, next |-> v]

\* fetch_update stores only through compare_exchange_weak against the value
\* it applied the closure to.
fetch_update_stores_blindly(word, prev, spur) == ~spur
fetch_update_stores(word, prev, spur) == compare_exchange_weak(word, prev, spur)

\* The two tests on st_now and sounding.
sound_starts_whenever_above_zero(st_now, sounding) == st_now > 0
sound_starts(st_now, sounding) == st_now > 0 /\ ~sounding
sound_stops(st_now, sounding) == st_now = 0 /\ sounding

InitTimers ==
    /\ BufferInit
    /\ h_loop = NoRace
    /\ OrderOff
    /\ CodecOff
    /\ KeypadOff
    /\ ShutdownOff
    /\ t_pc = "dt_load"
    /\ TimersNew

\* dt.fetch_update: the first load (a tick begins).
timer_dt_load ==
    /\ t_pc = "dt_load"
    /\ t_prev' = t_dt
    /\ t_pc' = "dt_cas"
    /\ h_t_decs' = [dt |-> 0, st |-> 0]
    /\ h_t_raced' = FALSE
    /\ UNCHANGED <<t_dt, t_st, t_st_now, t_sounding, t_tx, t_beeper, h_t_dec, h_t_send>>
    /\ UNCHANGED <<buffer_vars, c_vars, k_vars, s_vars>>

\* dt.fetch_update: the closure, and the compare_exchange_weak when it gives
\* a value; a failed exchange hands back the value found and the loop goes on.
timer_dt_cas ==
    /\ t_pc = "dt_cas"
    /\ \E spur \in BOOLEAN :
         LET new == checked_decrement(t_prev)
         IN  IF ~new.some
             THEN /\ t_pc' = "st_load"
                  /\ UNCHANGED <<t_dt, t_prev, h_t_dec, h_t_decs, h_t_raced>>
             ELSE IF fetch_update_stores(t_dt, t_prev, spur)
             THEN /\ t_dt' = new.next
                  /\ t_pc' = "st_load"
                  /\ h_t_dec' = [timer |-> "dt", from |-> t_prev, before |-> t_dt,
                                 after |-> new.next, raced |-> h_t_raced]
                  /\ h_t_decs' = [h_t_decs EXCEPT !.dt = @ + 1]
                  /\ UNCHANGED <<t_prev, h_t_raced>>
             ELSE /\ t_prev' = t_dt
                  /\ h_t_raced' = (h_t_raced \/ t_dt # t_prev)
                  /\ UNCHANGED <<t_dt, t_pc, h_t_dec, h_t_decs>>
    /\ UNCHANGED <<t_st, t_st_now, t_sounding, t_tx, t_beeper, h_t_send>>
    /\ UNCHANGED <<buffer_vars, c_vars, k_vars, s_vars>>

\* st.fetch_update: the first load.
timer_st_load ==
    /\ t_pc = "st_load"
    /\ t_prev' = t_st
    /\ t_pc' = "st_cas"
    /\ h_t_raced' = FALSE
    /\ UNCHANGED <<t_dt, t_st, t_st_now, t_sounding, t_tx, t_beeper, h_t_dec, h_t_decs,
                   h_t_send>>
    /\ UNCHANGED <<buffer_vars, c_vars, k_vars, s_vars>>

\* st.fetch_update: the closure and the compare_exchange_weak.
timer_st_cas ==
    /\ t_pc = "st_cas"
    /\ \E spur \in BOOLEAN :
         LET new == checked_decrement(t_prev)
         IN  IF ~new.some
             THEN /\ t_pc' = "st_now"
                  /\ UNCHANGED <<t_st, t_prev, h_t_dec, h_t_decs, h_t_raced>>
             ELSE IF fetch_update_stores(t_st, t_prev, spur)
             THEN /\ t_st' = new.next
                  /\ t_pc' = "st_now"
                  /\ h_t_dec' = [timer |-> "st", from |-> t_prev, before |-> t_st,
                                 after |-> new.next, raced |-> h_t_raced]
                  /\ h_t_decs' = [h_t_decs EXCEPT !.st = @ + 1]
                  /\ UNCHANGED <<t_prev, h_t_raced>>
             ELSE /\ t_prev' = t_st
                  /\ h_t_raced' = (h_t_raced \/ t_st # t_prev)
                  /\ UNCHANGED <<t_st, t_pc, h_t_dec, h_t_decs>>
    /\ UNCHANGED <<t_dt, t_st_now, t_sounding, t_tx, t_beeper, h_t_send>>
    /\ UNCHANGED <<buffer_vars, c_vars, k_vars, s_vars>>

\* let st_now = st.load(Acquire).
timer_st_now ==
    /\ t_pc = "st_now"
    /\ t_st_now' = t_st
    /\ t_pc' = "send"
    /\ UNCHANGED <<t_dt, t_st, t_prev, t_sounding, t_tx, t_beeper, h_t_dec, h_t_decs, h_t_raced,
                   h_t_send>>
    /\ UNCHANGED <<buffer_vars, c_vars, k_vars, s_vars>>

\* The if / else if on st_now and sounding, tx.send, and the sleep that ends
\* the tick.
timer_send ==
    /\ t_pc = "send"
    /\ IF sound_starts(t_st_now, t_sounding)
       THEN /\ Len(t_tx) < MaxChannel
            /\ t_tx' = Append(t_tx, TRUE)
            /\ t_sounding' = TRUE
            /\ h_t_send' = [on |-> TRUE, st_now |-> t_st_now, sounding |-> t_sounding,
                            last |-> IF h_t_send = NoSend THEN "none"
                                     ELSE IF h_t_send.on THEN "on" ELSE "off"]
       ELSE IF sound_stops(t_st_now, t_sounding)
       THEN /\ Len(t_tx) < MaxChannel
            /\ t_tx' = Append(t_tx, FALSE)
            /\ t_sounding' = FALSE
            /\ h_t_send' = [on |-> FALSE, st_now |-> t_st_now, sounding |-> t_sounding,
                            last |-> IF h_t_send = NoSend THEN "none"
                                     ELSE IF h_t_send.on THEN "on" ELSE "off"]
       ELSE UNCHANGED <<t_tx, t_sounding, h_t_send>>
    /\ t_pc' = "dt_load"
    /\ UNCHANGED <<t_dt, t_st, t_prev, t_st_now, t_beeper, h_t_dec, h_t_decs, h_t_raced>>
    /\ UNCHANGED <<buffer_vars, c_vars, k_vars, s_vars>>

\* Chip8::exec(LdDtVx { x }): self.dt.store(val, Release).
LdDtVx ==
    /\ \E val \in TimerValues : t_dt' = val
    /\ UNCHANGED <<t_pc, t_st, t_prev, t_st_now, t_sounding, t_tx, t_beeper, h_t_dec,
                   h_t_decs, h_t_raced, h_t_send>>
    /\ UNCHANGED <<buffer_vars, c_vars, k_vars, s_vars>>

\* Chip8::exec(LdStVx { x }): self.st.store(val, Release).
LdStVx ==
    /\ \E val \in TimerValues : t_st' = val
    /\ UNCHANGED <<t_pc, t_dt, t_prev, t_st_now, t_sounding, t_tx, t_beeper, h_t_dec,
                   h_t_decs, h_t_raced, h_t_send>>
    /\ UNCHANGED <<buffer_vars, c_vars, k_vars, s_vars>>

\* main, "Play sounds": one turn of while let Ok(on) = timer_rx.try_recv().
play_sounds ==
    /\ t_tx # <<>>
    /\ t_beeper' = (IF Head(t_tx) THEN "on" ELSE "off")
    /\ t_tx' = Tail(t_tx)
    /\ UNCHANGED <<t_pc, t_dt, t_st, t_prev, t_st_now, t_sounding, h_t_dec, h_t_decs, h_t_raced,
                   h_t_send>>
    /\ UNCHANGED <<buffer_vars, c_vars, k_vars, s_vars>>

NextTimers ==
    \/ timer_dt_load
    \/ timer_dt_cas
    \/ timer_st_load
    \/ timer_st_cas
    \/ timer_st_now
    \/ timer_send
    \/ LdDtVx
    \/ LdStVx
    \/ play_sounds

SpecTimers == InitTimers /\ [][NextTimers]_vars

\* C34: the timer thread takes at most 1 from each timer in a tick and never
\* takes a timer below 0, and every decrement it stores is one less than the
\* value the timer held at the moment of the store, whatever the CPU thread
\* stored since the timer thread loaded.
C34_AtomicDecrement ==
    /\ t_dt \in 0 .. U8Max
    /\ t_st \in 0 .. U8Max
    /\ h_t_decs.dt <= 1
    /\ h_t_decs.st <= 1
    /\ h_t_dec # NoDec =>
          /\ h_t_dec.before > 0
          /\ h_t_dec.after = h_t_dec.before - 1
          /\ h_t_dec.from = h_t_dec.before

\* The timer thread has stored a decrement of a value the CPU thread stored
\* after the first load of the fetch_update: the first exchange failed.
C34_Witness ==
    /\ h_t_dec.timer = "dt"
    /\ h_t_dec.raced
    /\ h_t_dec.before = MaxTimer
    /\ h_t_dec.after = MaxTimer - 1
    /\ h_t_decs.dt = 1
    /\ t_pc = "st_load"
    /\ t_st = 0

\* C35: the messages of spawn_timers alternate, starting with true: on is
\* sent only by a tick that saw st above 0 while not sounding, off only by a
\* tick that saw st at 0 while sounding, and no message equals the one
\* before it.
C35_Alternates ==
    /\ h_t_send # NoSend =>
          /\ h_t_send.on => (h_t_send.st_now > 0 /\ ~h_t_send.sounding)
          /\ ~h_t_send.on => (h_t_send.st_now = 0 /\ h_t_send.sounding)
          /\ h_t_send.last # (IF h_t_send.on THEN "on" ELSE "off")
          /\ h_t_send.last = "none" => h_t_send.on
          /\ t_sounding = h_t_send.on
    /\ h_t_send = NoSend => (t_tx = <<>> /\ t_beeper = "none" /\ ~t_sounding)
    /\ \A i \in 1 .. Len(t_tx) - 1 : t_tx[i] # t_tx[i + 1]
    /\ t_tx # <<>> =>
          /\ t_tx[Len(t_tx)] = h_t_send.on
          /\ t_beeper # (IF Head(t_tx) THEN "on" ELSE "off")
          /\ t_beeper = "none" => Head(t_tx)

\* On, off and on again have been sent while the CPU thread stored to st,
\* and main has passed the first message to the beeper.
C35_Witness ==
    /\ t_tx = <<FALSE, TRUE>>
    /\ t_beeper = "on"
    /\ h_t_send.on
    /\ h_t_send.last = "off"

(***************************************************************************)
(* LD Vx,K (src/src/cpu.rs): Chip8::exec(LdVxK { x }) run again and again  *)
(* at the program counter while main presses and releases keys between two *)
(* steps.                                                                  *)
(***************************************************************************)
Keys == 0 .. KeyCount - 1

\* The keys of the KeyDown and KeyUp messages.
KeysUsed == (0 .. MaxKey) \cup {KeyCount - 1}

\* The key the for loop over self.keys breaks at: the first that is down.
first_pressed_from_the_end(keys) == CHOOSE k \in keys : \A j \in keys : j <= k
first_pressed(keys) == CHOOSE k \in keys : \A j \in keys : k <= j

\* self.keys.iter().all(|&k| !k)
all_clear(keys) == \A k \in Keys : k \notin keys

InitKeypad ==
    /\ BufferInit
    /\ h_loop = NoRace
    /\ OrderOff
    /\ CodecOff
    /\ TimersOff
    /\ ShutdownOff
    /\ k_on = TRUE
    /\ Chip8_new

\* Chip8::press_key(key), called by main on Message::KeyDown.
press_key ==
    /\ k_on
    /\ \E key \in KeysUsed :
         /\ Cardinality(k_keys \cup {key}) <= MaxPressed
         /\ k_keys' = k_keys \cup {key}
    /\ UNCHANGED <<k_on, k_key_state, k_last_key, k_vx, k_pc, h_k_exec, h_k_cycles>>
    /\ UNCHANGED <<buffer_vars, c_vars, t_vars, s_vars>>

\* Chip8::release_key(key), called by main on Message::KeyUp.
release_key ==
    /\ k_on
    /\ \E key \in KeysUsed : k_keys' = k_keys \ {key}
    /\ UNCHANGED <<k_on, k_key_state, k_last_key, k_vx, k_pc, h_k_exec, h_k_cycles>>
    /\ UNCHANGED <<buffer_vars, c_vars, t_vars, s_vars>>

\* Chip8::exec(LdVxK { x }).
exec_LdVxK ==
    /\ k_on
    /\ k_pc < PROGRAM_START + 2 * MaxCycles
    /\ h_k_exec' = [key_state |-> k_key_state, keys |-> k_keys, last_key |-> k_last_key,
                    vx |-> k_vx, pc |-> k_pc]
    /\ IF k_key_state = "AwaitingPress"
       THEN /\ IF k_keys # {}
               THEN /\ k_key_state' = "AwaitingRelease"
                    /\ k_last_key' = first_pressed(k_keys)
                    /\ h_k_cycles' = [h_k_cycles EXCEPT !.begun = @ + 1]
               ELSE UNCHANGED <<k_key_state, k_last_key, h_k_cycles>>
            /\ UNCHANGED <<k_vx, k_pc>>
       ELSE IF all_clear(k_keys)
       THEN /\ k_key_state' = "AwaitingPress"
            /\ k_vx' = k_last_key
            /\ k_pc' = k_pc + 2
            /\ h_k_cycles' = [h_k_cycles EXCEPT !.ended = @ + 1]
            /\ UNCHANGED k_last_key
       ELSE UNCHANGED <<k_key_state, k_last_key, k_vx, k_pc, h_k_cycles>>
    /\ UNCHANGED <<k_on, k_keys>>
    /\ UNCHANGED <<buffer_vars, c_vars, t_vars, s_vars>>

NextKeypad ==
    \/ press_key
    \/ release_key
    \/ exec_LdVxK

SpecKeypad == InitKeypad /\ [][NextKeypad]_vars

\* C37: LD Vx,K waits in two phases. Found in AwaitingPress it leaves pc as
\* it is and, when a key is down, puts the lowest key that is down in
\* last_key and goes to AwaitingRelease. Found in AwaitingRelease it leaves
\* pc and Vx as they are while a key is down, and with all keys up stores
\* last_key in Vx, goes back to AwaitingPress and adds 2 to pc. So pc has
\* advanced by 2 once for every wait that began and ended.
C37_TwoPhaseWait ==
    /\ h_k_exec.key_state = "AwaitingPress" =>
          /\ k_pc = h_k_exec.pc
          /\ IF h_k_exec.keys # {}
             THEN /\ k_key_state = "AwaitingRelease"
                  /\ k_last_key \in h_k_exec.keys
                  /\ \A key \in h_k_exec.keys : k_last_key <= key
             ELSE k_key_state = "AwaitingPress"
    /\ h_k_exec.key_state = "AwaitingRelease" =>
          IF h_k_exec.keys # {}
          THEN /\ k_pc = h_k_exec.pc
               /\ k_vx = h_k_exec.vx
               /\ k_key_state = "AwaitingRelease"
          ELSE /\ k_vx = h_k_exec.last_key
               /\ k_key_state = "AwaitingPress"
               /\ k_pc = h_k_exec.pc + 2
    /\ k_pc = PROGRAM_START + 2 * h_k_cycles.ended
    /\ h_k_cycles.begun = h_k_cycles.ended + (IF k_key_state = "AwaitingRelease" THEN 1 ELSE 0)

\* The last wait has ended with all keys up: the key it recorded is in Vx
\* and pc has advanced once for each wait.
C37_Witness ==
    /\ h_k_cycles = [begun |-> MaxCycles, ended |-> MaxCycles]
    /\ h_k_exec.key_state = "AwaitingRelease"
    /\ h_k_exec.keys = {}
    /\ h_k_exec.last_key = MaxKey
    /\ k_vx = MaxKey
    /\ k_last_key = MaxKey
    /\ k_pc = PROGRAM_START + 2 * MaxCycles

(***************************************************************************)
(* Shutdown of the oxid8 binary (src/src/bin/oxid8.rs): main, the render   *)
(* thread and the input thread each loop while running_state is not Done;  *)
(* the input thread turns terminal events into messages, and main stores   *)
(* Done when it receives Quit, then joins the two threads.                 *)
(***************************************************************************)
\* handle_key on the event read: Esc gives Quit, a mapped character a key
\* message, anything else None.
handle_key(event) ==
    CASE event = "Esc" -> "Quit"
      [] event = "Char" -> "Key"
      [] OTHER -> "None"

TerminalEvents == {"Esc", "Char", "Other"}

InitShutdown ==
    /\ BufferInit
    /\ h_loop = NoRace
    /\ OrderOff
    /\ CodecOff
    /\ TimersOff
    /\ KeypadOff
    /\ s_main = "test"
    /\ s_render = "test"
    /\ s_input = "test"
    /\ Model_new

\* The terminal delivers an event (a key event or another one).
terminal_event ==
    /\ s_main \notin {"off", "returned"}
    /\ s_events < MaxEvents
    /\ \E event \in TerminalEvents : s_terminal' = Append(s_terminal, event)
    /\ s_events' = s_events + 1
    /\ UNCHANGED <<s_main, s_render, s_input, s_running_state, s_message, s_input_tx>>
    /\ UNCHANGED <<buffer_vars, c_vars, t_vars, k_vars>>

\* The render thread: the test of its while loop.
render_test ==
    /\ s_render = "test"
    /\ s_render' = (IF s_running_state # "Done" THEN "draw" ELSE "done")
    /\ UNCHANGED <<s_main, s_input, s_running_state, s_terminal, s_events, s_message,
                   s_input_tx>>
    /\ UNCHANGED <<buffer_vars, c_vars, t_vars, k_vars>>

\* The render thread: buf_rx.read(), terminal.draw and the sleep.
render_draw ==
    /\ s_render = "draw"
    /\ s_render' = "test"
    /\ UNCHANGED <<s_main, s_input, s_running_state, s_terminal, s_events, s_message,
                   s_input_tx>>
    /\ UNCHANGED <<buffer_vars, c_vars, t_vars, k_vars>>

\* The input thread: the test of its while loop.
input_test ==
    /\ s_input = "test"
    /\ s_input' = (IF s_running_state # "Done" THEN "read" ELSE "done")
    /\ UNCHANGED <<s_main, s_render, s_running_state, s_terminal, s_events, s_message,
                   s_input_tx>>
    /\ UNCHANGED <<buffer_vars, c_vars, t_vars, k_vars>>

\* event::read() does not return before an event is there.
event_read == s_terminal # <<>>

\* The input thread: event::read().unwrap() and handle_key.
input_read ==
    /\ s_input = "read"
    /\ event_read
    /\ s_message' = handle_key(Head(s_terminal))
    /\ s_terminal' = Tail(s_terminal)
    /\ s_input' = "send"
    /\ UNCHANGED <<s_main, s_render, s_running_state, s_events, s_input_tx>>
    /\ UNCHANGED <<buffer_vars, c_vars, t_vars, k_vars>>

\* The input thread: input_tx.send(message) when there is one, and the sleep.
input_send ==
    /\ s_input = "send"
    /\ s_input_tx' = (IF s_message # "None" THEN Append(s_input_tx, s_message)
                      ELSE s_input_tx)
    /\ s_message' = "None"
    /\ s_input' = "test"
    /\ UNCHANGED <<s_main, s_render, s_running_state, s_terminal, s_events>>
    /\ UNCHANGED <<buffer_vars, c_vars, t_vars, k_vars>>

\* main: the test of its while loop.
main_test ==
    /\ s_main = "test"
    /\ s_main' = (IF s_running_state # "Done" THEN "run" ELSE "join_render")
    /\ UNCHANGED <<s_render, s_input, s_running_state, s_terminal, s_events, s_message,
                   s_input_tx>>
    /\ UNCHANGED <<buffer_vars, c_vars, t_vars, k_vars>>

\* main: chip.run_step() and the write of the chip into the buffer.
main_run ==
    /\ s_main = "run"
    /\ s_main' = "input"
    /\ UNCHANGED <<s_render, s_input, s_running_state, s_terminal, s_events, s_message,
                   s_input_tx>>
    /\ UNCHANGED <<buffer_vars, c_vars, t_vars, k_vars>>

\* update(model, msg): Quit stores Done.
update(msg) == IF msg = "Quit" THEN "Done" ELSE s_running_state

\* main, "Run input": one turn of while let Ok(message) = input_rx.try_recv(),
\* or the end of the loop, the sounds and the sleep when the channel is empty.
main_input ==
    /\ s_main = "input"
    /\ IF s_input_tx # <<>>
       THEN /\ s_running_state' = update(Head(s_input_tx))
            /\ s_input_tx' = Tail(s_input_tx)
            /\ UNCHANGED s_main
       ELSE /\ s_main' = "test"
            /\ UNCHANGED <<s_running_state, s_input_tx>>
    /\ UNCHANGED <<s_render, s_input, s_terminal, s_events, s_message>>
    /\ UNCHANGED <<buffer_vars, c_vars, t_vars, k_vars>>

\* main: render_join_handle.join().
main_join_render ==
    /\ s_main = "join_render"
    /\ s_render = "done"
    /\ s_main' = "join_input"
    /\ UNCHANGED <<s_render, s_input, s_running_state, s_terminal, s_events, s_message,
                   s_input_tx>>
    /\ UNCHANGED <<buffer_vars, c_vars, t_vars, k_vars>>

\* main: input_join_handle.join(), restore_terminal and the return.
main_join_input ==
    /\ s_main = "join_input"
    /\ s_input = "done"
    /\ s_main' = "returned"
    /\ UNCHANGED <<s_render, s_input, s_running_state, s_terminal, s_events, s_message,
                   s_input_tx>>
    /\ UNCHANGED <<buffer_vars, c_vars, t_vars, k_vars>>

\* A step of one of the three threads of the binary.
ProgramStep ==
    \/ render_test
    \/ render_draw
    \/ input_test
    \/ input_read
    \/ input_send
    \/ main_test
    \/ main_run
    \/ main_input
    \/ main_join_render
    \/ main_join_input

NextShutdown ==
    \/ terminal_event
    \/ render_test
    \/ render_draw
    \/ input_test
    \/ input_read
    \/ input_send
    \/ main_test
    \/ main_run
    \/ main_input
    \/ main_join_render
    \/ main_join_input

SpecShutdown == InitShutdown /\ [][NextShutdown]_vars

\* The three threads take their steps; the terminal owes no event.
FairShutdown ==
    /\ WF_vars(render_test \/ render_draw)
    /\ WF_vars(input_test \/ input_read \/ input_send)
    /\ WF_vars(main_test \/ main_run \/ main_input \/ main_join_render \/ main_join_input)

SpecShutdownFair == SpecShutdown /\ FairShutdown

\* C36: once running_state is Done, the render thread and the input thread
\* leave their loops and main joins them and returns, with no further
\* terminal event: as long as main has not returned, one of the three
\* threads has a step to take without the terminal delivering anything.
C36_ShutdownProceeds ==
    (s_running_state = "Done" /\ s_main # "returned") => ENABLED ProgramStep

\* The same as a property of the behaviours in which every thread keeps
\* taking its steps.
C36_ShutdownCompletes ==
    (s_running_state = "Done") ~> (s_main = "returned")

\* The state the shutdown stops in: Done is stored, the render thread has
\* left its loop, main waits in the join of the input thread, and the input
\* thread waits in event::read() with no event there.
C36_InputBlocked ==
    ~(/\ s_running_state = "Done"
      /\ s_render = "done"
      /\ s_main = "join_input"
      /\ s_input = "read"
      /\ s_terminal = <<>>)

(***************************************************************************)
(* The races of the unbounded-loop variant (src/src/triple_buffer.rs):     *)
(* the producer publishes up to RaceMaxSeq values while the consumer's     *)
(* try_swap_read loops.                                                    *)
(***************************************************************************)
race_write == write /\ w_seq <= RaceMaxSeq

NextRace ==
    \/ race_write
    \/ deref_mut
    \/ w_drop_handle
    \/ loop_swap_write_cas
    \/ loop_swap_write_load
    \/ loop_read
    \/ loop_try_swap_read_cas
    \/ loop_try_swap_read_load
    \/ r_drop_handle

SpecRace == Init /\ [][NextRace]_vars

whole_write == write /\ w_seq <= WholeMaxSeq /\ r_pc # "read_cas"
whole_deref_mut == deref_mut /\ r_pc # "read_cas"
whole_w_drop_handle == w_drop_handle /\ r_pc # "read_cas"
whole_read == read /\ Len(r_guards) < WholeMaxReaders /\ w_pc # "swap_cas"
whole_deref_first == deref_first /\ w_pc # "swap_cas"
whole_deref_second == deref_second /\ w_pc # "swap_cas"
whole_r_drop_handle == r_drop_handle /\ w_pc # "swap_cas"

\* swap_write_retry(1) whose first CAS succeeds.
bounded_swap_write == swap_write_retry_cas /\ w_pc' = "idle"

\* swap_write (loop) whose first CAS succeeds.
unbounded_swap_write == loop_swap_write_cas /\ w_pc' = "idle"

\* try_swap_read (single attempt) whose CAS succeeds.
bounded_try_swap_read == try_swap_read_cas /\ encoded_state' # encoded_state

\* try_swap_read (loop) whose first CAS succeeds.
unbounded_try_swap_read == loop_try_swap_read_cas /\ encoded_state' # encoded_state

\* The steps both variants take through the same code.
WholeShared ==
    \/ whole_write
    \/ whole_deref_mut
    \/ whole_w_drop_handle
    \/ whole_read
    \/ whole_deref_first
    \/ whole_deref_second
    \/ whole_r_drop_handle

\* A step of the bounded-retry variant.
WholeBounded ==
    \/ WholeShared
    \/ bounded_swap_write
    \/ bounded_try_swap_read

\* A step of the unbounded-loop variant.
WholeUnbounded ==
    \/ WholeShared
    \/ unbounded_swap_write
    \/ unbounded_try_swap_read

NextWhole ==
    \/ whole_write
    \/ whole_deref_mut
    \/ whole_w_drop_handle
    \/ whole_read
    \/ whole_deref_first
    \/ whole_deref_second
    \/ whole_r_drop_handle
    \/ bounded_swap_write
    \/ bounded_try_swap_read
    \/ unbounded_swap_write
    \/ unbounded_try_swap_read

SpecWhole == Init /\ [][NextWhole]_vars

\* C32: when no CAS fails and the operations are interleaved whole, the
\* bounded-retry variant and the unbounded-loop variant take the same steps
\* from every state either of them reaches: the same packed word, the same
\* guard slots, the same values in the slots and through the guards.
C32_SameSteps == [][WholeBounded <=> WholeUnbounded]_vars

\* Both CAS have succeeded several times: the third value is published and
\* a Read Guard obtained by a successful advance shows the second.
C32_Witness ==
    /\ h_pub = WholeMaxSeq
    /\ w_pc = "idle"
    /\ r_pc = "idle"
    /\ Len(r_guards) = 1
    /\ r_guards[1].how = "swapped"
    /\ buffers[r_guards[1].slot] = Full(WholeMaxSeq - 1)
    /\ ~h_spurious
    /\ h_loop = NoRace

(***************************************************************************)
(* The memory orderings of src/src/utils/triple_buffer.rs.  Every store to *)
(* encoded_state is a compare-exchange, so the stores form one chain of    *)
(* read-modify-writes: a load with acquire that reads the store numbered q *)
(* synchronizes with every release store numbered q or less.  A thread's   *)
(* accesses to a slot are released by its next successful CAS; the other   *)
(* thread's access to the slot happens after them only if it has read, with*)
(* acquire, that store or a later one.                                     *)
(***************************************************************************)
\* encoded_state.load(Ordering::Acquire), in state(), try_swap_read and
\* swap_write_retry.
load_ordering == "Acquire"

\* compare_exchange_weak(current, new, Ordering::Release, Ordering::Acquire):
\* the ordering on success and the ordering on failure.
cas_success_ordering == "Release"
cas_failure_ordering == "Acquire"

\* What an ordering does to the load and to the store it is put on.
acquires(ordering) == ordering \in {"Acquire", "AcqRel", "SeqCst"}
releases(ordering) == ordering \in {"Release", "AcqRel", "SeqCst"}

\* Accesses to a slot that no store has released yet.
Unreleased == 0 - 1

\* The accesses released by store `rel` happen before what the thread does
\* after having read store `acq` with acquire.
HappensBefore(rel, acq) == rel # Unreleased /\ rel <= acq

\* The latest store thread `t` has read with acquire after a load with
\* ordering `ordering` of the store numbered `pos`.
acquire(t, ordering, pos) ==
    IF acquires(ordering) /\ pos > m_acq[t] THEN [m_acq EXCEPT ![t] = pos] ELSE m_acq

\* The releasing stores of the slots after a store numbered `pos` with
\* ordering `ordering`.
release(rel, ordering, pos) ==
    IF releases(ordering)
    THEN [i \in Slots |-> IF rel[i] = Unreleased THEN pos ELSE rel[i]]
    ELSE rel

InitOrder ==
    /\ BufferInit
    /\ CodecOff
    /\ TimersOff
    /\ KeypadOff
    /\ ShutdownOff
    /\ h_loop = NoRace
    /\ m_w_pc = "idle"
    /\ m_r_pc = "idle"
    /\ OrderNew

\* TripleBufferWriter::write: state() and the WriteHandle on the write slot.
order_write ==
    /\ m_w_pc = "idle"
    /\ m_seq < OrderMaxSeq
    /\ m_acq' = acquire("w", load_ordering, m_pos)
    /\ m_w_slot' = decode(m_word).write_idx
    /\ m_seq' = m_seq + 1
    /\ m_w_pc' = "guard"
    /\ UNCHANGED <<m_word, m_pos, m_r_pc, m_w_cur, m_r_cur, m_w_try, m_r_slot, m_rel_w,
                   m_rel_r, h_m_race, h_m_aba>>
    /\ UNCHANGED <<encoded_state, buffers, w_vars, r_vars, h_call, h_pub, h_rel, h_dropped,
                   h_quiet, h_max, h_obs, h_spurious, h_pre, h_unread, h_loop, c_vars,
                   t_vars, k_vars, s_vars>>

\* WriteHandle::deref_mut and the store through it (not atomic).
order_deref_mut ==
    /\ m_w_pc = "guard"
    /\ h_m_race' = (IF h_m_race = "none" /\ ~HappensBefore(m_rel_r[m_w_slot], m_acq["w"])
                    THEN "write" ELSE h_m_race)
    /\ m_rel_w' = [m_rel_w EXCEPT ![m_w_slot] = Unreleased]
    /\ m_w_pc' = "stored"
    /\ UNCHANGED <<m_word, m_pos, m_r_pc, m_w_cur, m_r_cur, m_w_try, m_w_slot, m_r_slot,
                   m_seq, m_acq, m_rel_r, h_m_aba>>
    /\ UNCHANGED <<encoded_state, buffers, w_vars, r_vars, h_call, h_pub, h_rel, h_dropped,
                   h_quiet, h_max, h_obs, h_spurious, h_pre, h_unread, h_loop, c_vars,
                   t_vars, k_vars, s_vars>>

\* Drop for WriteHandle, and the load of a turn of swap_write_retry's loop.
order_swap_write_load ==
    /\ m_w_pc \in {"stored", "retry"}
    /\ m_w_cur' = [word |-> m_word, pos |-> m_pos]
    /\ m_acq' = acquire("w", load_ordering, m_pos)
    /\ m_w_try' = (IF m_w_pc = "stored" THEN 0 ELSE m_w_try)
    /\ m_w_pc' = "cas"
    /\ UNCHANGED <<m_word, m_pos, m_r_pc, m_r_cur, m_w_slot, m_r_slot, m_seq, m_rel_w,
                   m_rel_r, h_m_race, h_m_aba>>
    /\ UNCHANGED <<encoded_state, buffers, w_vars, r_vars, h_call, h_pub, h_rel, h_dropped,
                   h_quiet, h_max, h_obs, h_spurious, h_pre, h_unread, h_loop, c_vars,
                   t_vars, k_vars, s_vars>>

\* swap_write_retry: the compare_exchange_weak; after the last failure the
\* final load and the return.
order_swap_write_cas ==
    /\ m_w_pc = "cas"
    /\ \E spur \in BOOLEAN :
         IF compare_exchange_weak(m_word, m_w_cur.word, spur)
         THEN /\ m_word' = encode(swap_write_new_state(decode(m_w_cur.word)))
              /\ m_pos' = m_pos + 1
              /\ m_acq' = acquire("w", cas_success_ordering, m_pos)
              /\ m_rel_w' = release(m_rel_w, cas_success_ordering, m_pos + 1)
              /\ h_m_aba' = (h_m_aba \/ m_w_cur.pos # m_pos)
              /\ m_w_pc' = "idle"
              /\ UNCHANGED m_w_try
         ELSE /\ m_acq' = acquire("w", cas_failure_ordering, m_pos)
              /\ IF m_w_try < Retries
                 THEN /\ m_w_try' = m_w_try + 1
                      /\ m_w_pc' = "retry"
                 ELSE /\ m_w_pc' = "idle"
                      /\ UNCHANGED m_w_try
              /\ UNCHANGED <<m_word, m_pos, m_rel_w, h_m_aba>>
    /\ UNCHANGED <<m_r_pc, m_w_cur, m_r_cur, m_w_slot, m_r_slot, m_seq, m_rel_r, h_m_race>>
    /\ UNCHANGED <<encoded_state, buffers, w_vars, r_vars, h_call, h_pub, h_rel, h_dropped,
                   h_quiet, h_max, h_obs, h_spurious, h_pre, h_unread, h_loop, c_vars,
                   t_vars, k_vars, s_vars>>

\* TripleBufferReader::read with no guard out: the load of try_swap_read and
\* its early return on a clean word.
order_read ==
    /\ m_r_pc = "idle"
    /\ m_acq' = acquire("r", load_ordering, m_pos)
    /\ IF nothing_new(decode(m_word))
       THEN /\ m_r_slot' = decode(m_word).read_idx
            /\ m_r_pc' = "guard"
            /\ UNCHANGED m_r_cur
       ELSE /\ m_r_cur' = [word |-> m_word, pos |-> m_pos]
            /\ m_r_pc' = "cas"
            /\ UNCHANGED m_r_slot
    /\ UNCHANGED <<m_word, m_pos, m_w_pc, m_w_cur, m_w_try, m_w_slot, m_seq, m_rel_w,
                   m_rel_r, h_m_race, h_m_aba>>
    /\ UNCHANGED <<encoded_state, buffers, w_vars, r_vars, h_call, h_pub, h_rel, h_dropped,
                   h_quiet, h_max, h_obs, h_spurious, h_pre, h_unread, h_loop, c_vars,
                   t_vars, k_vars, s_vars>>

\* try_swap_read: the single compare_exchange_weak, and the ReadHandle on the
\* read slot of the state returned.
order_try_swap_read_cas ==
    /\ m_r_pc = "cas"
    /\ \E spur \in BOOLEAN :
         LET current_state == decode(m_r_cur.word)
             new_state == try_swap_read_new_state(current_state)
         IN  IF compare_exchange_weak(m_word, m_r_cur.word, spur)
             THEN /\ m_word' = encode(new_state)
                  /\ m_pos' = m_pos + 1
                  /\ m_acq' = acquire("r", cas_success_ordering, m_pos)
                  /\ m_rel_r' = release(m_rel_r, cas_success_ordering, m_pos + 1)
                  /\ h_m_aba' = (h_m_aba \/ m_r_cur.pos # m_pos)
                  /\ m_r_slot' = new_state.read_idx
             ELSE /\ m_acq' = acquire("r", cas_failure_ordering, m_pos)
                  /\ m_r_slot' = current_state.read_idx
                  /\ UNCHANGED <<m_word, m_pos, m_rel_r, h_m_aba>>
    /\ m_r_pc' = "guard"
    /\ UNCHANGED <<m_w_pc, m_w_cur, m_r_cur, m_w_try, m_w_slot, m_seq, m_rel_w, h_m_race>>
    /\ UNCHANGED <<encoded_state, buffers, w_vars, r_vars, h_call, h_pub, h_rel, h_dropped,
                   h_quiet, h_max, h_obs, h_spurious, h_pre, h_unread, h_loop, c_vars,
                   t_vars, k_vars, s_vars>>

\* ReadHandle::deref and the load through it (not atomic).
order_deref ==
    /\ m_r_pc = "guard"
    /\ h_m_race' = (IF h_m_race = "none" /\ ~HappensBefore(m_rel_w[m_r_slot], m_acq["r"])
                    THEN "read" ELSE h_m_race)
    /\ m_rel_r' = [m_rel_r EXCEPT ![m_r_slot] = Unreleased]
    /\ m_r_pc' = "loaded"
    /\ UNCHANGED <<m_word, m_pos, m_w_pc, m_w_cur, m_r_cur, m_w_try, m_w_slot, m_r_slot,
                   m_seq, m_acq, m_rel_w, h_m_aba>>
    /\ UNCHANGED <<encoded_state, buffers, w_vars, r_vars, h_call, h_pub, h_rel, h_dropped,
                   h_quiet, h_max, h_obs, h_spurious, h_pre, h_unread, h_loop, c_vars,
                   t_vars, k_vars, s_vars>>

\* Drop for ReadHandle.
order_r_drop_handle ==
    /\ m_r_pc \in {"guard", "loaded"}
    /\ m_r_pc' = "idle"
    /\ m_r_slot' = NoSlot
    /\ UNCHANGED <<m_word, m_pos, m_w_pc, m_w_cur, m_r_cur, m_w_try, m_w_slot, m_seq,
                   m_acq, m_rel_w, m_rel_r, h_m_race, h_m_aba>>
    /\ UNCHANGED <<encoded_state, buffers, w_vars, r_vars, h_call, h_pub, h_rel, h_dropped,
                   h_quiet, h_max, h_obs, h_spurious, h_pre, h_unread, h_loop, c_vars,
                   t_vars, k_vars, s_vars>>

NextOrder ==
    \/ order_write
    \/ order_deref_mut
    \/ order_swap_write_load
    \/ order_swap_write_cas
    \/ order_read
    \/ order_try_swap_read_cas
    \/ order_deref
    \/ order_r_drop_handle

SpecOrder == InitOrder /\ [][NextOrder]_vars

\* C33: everything the producer wrote to a slot before publishing it happens
\* before the consumer's loads from that slot through a Read Guard, and the
\* consumer's last load from a slot happens before the producer's next store
\* to it.
C33_HappensBefore == h_m_race = "none"

\* The second half on its own: the producer never stores to a slot without
\* the consumer's loads from it having happened before.
C33_ReadsBeforeNextWrite == h_m_race # "write"

\* The first half fails only after a CAS of the consumer that succeeded on a
\* store its load had not read, the word having come back to the same value.
C33_WritesBeforeReadsUnlessAba == (h_m_race = "read") => h_m_aba

====
